---- MODULE Spec2Model ----
(***************************************************************************)
(* Model of the colour engine of color-explorer: the HSL -> RGB ->         *)
(* luminance conversion (lib/utils/color.ts), the spring-relaxation        *)
(* network (lib/stores/springs.ts) and the gradient generators             *)
(* (components/ColorGradients.svelte).                                     *)
(*                                                                         *)
(* Numbers.  The program computes in IEEE doubles; the model computes in   *)
(* fixed point.  Hue, saturation, lightness, velocities and forces are     *)
(* integers counting hundredths (SC units per degree / per cent),          *)
(* luminance is an integer counting 1/LQ, and the opponent-space values of *)
(* oklabMix count 1/OQ.  Every product or quotient is rounded to the       *)
(* nearest unit.  NaN (the hue chroma-js reports for a grey) is the        *)
(* value NaN below.  All intermediate values stay below 2^31.              *)
(***************************************************************************)
EXTENDS Integers, Sequences, FiniteSets, TLC

SC == 10 * 10            \* units of h, s, l per degree / per cent
FR == 100 * SC           \* units per 1.0 of the fractions s/100 and l/100
LQ == 10 ^ 5             \* units of luminance per 1.0
NaN == 0 - 1             \* Number.NaN as a hue

Abs(x) == IF x < 0 THEN 0 - x ELSE x
Min2(a, b) == IF a < b THEN a ELSE b
Max2(a, b) == IF a > b THEN a ELSE b

\* floor(a * b / d) for b >= 0, d > 0, without forming a * b
MulDiv(a, b, d) == (a \div d) * b + ((a % d) * b) \div d

\* Math.round(a / d) = floor(a / d + 1/2), d > 0
RoundDiv(a, d) == (2 * a + d) \div (2 * d)

\* Math.round(a * b / d) for b >= 0, d > 0 even, without forming a * b
MulDivRound(a, b, d) == (a \div d) * b + ((a % d) * b + d \div 2) \div d

(***************************************************************************)
(* chroma-js.  luminance_x: the sRGB transfer function                     *)
(* x <= 0.03928 ? x/12.92 : ((x+0.055)/1.055)^2.4 of x = c/255, tabulated  *)
(* for the 256 integer channel values c, in units of 1/LQ.                 *)
(***************************************************************************)
LinearTable ==
    << 0, 30, 61, 91, 121, 152, 182, 212, 243, 273, 304, 335, 368, 402, 439, 478,
       518, 561, 605, 651, 700, 750, 802, 857, 913, 972, 1033, 1096, 1161, 1229, 1298, 1370,
       1444, 1521, 1600, 1681, 1764, 1850, 1938, 2029, 2122, 2217, 2315, 2416, 2519, 2624, 2732, 2843,
       2956, 3071, 3190, 3310, 3434, 3560, 3689, 3820, 3955, 4092, 4231, 4374, 4519, 4667, 4817, 4971,
       5127, 5286, 5448, 5613, 5781, 5951, 6125, 6301, 6480, 6663, 6848, 7036, 7227, 7421, 7619, 7819,
       8022, 8228, 8438, 8650, 8866, 9084, 9306, 9531, 9759, 9990, 10224, 10462, 10702, 10946, 11193, 11444,
       11697, 11954, 12214, 12477, 12744, 13014, 13287, 13563, 13843, 14126, 14413, 14703, 14996, 15293, 15593, 15896,
       16203, 16513, 16827, 17144, 17465, 17789, 18116, 18447, 18782, 19120, 19462, 19807, 20156, 20508, 20864, 21223,
       21586, 21953, 22323, 22697, 23074, 23455, 23840, 24228, 24620, 25016, 25415, 25818, 26225, 26636, 27050, 27468,
       27889, 28315, 28744, 29177, 29614, 30054, 30499, 30947, 31399, 31855, 32314, 32778, 33245, 33716, 34191, 34670,
       35153, 35640, 36131, 36625, 37124, 37626, 38133, 38643, 39157, 39676, 40198, 40724, 41254, 41789, 42327, 42869,
       43415, 43966, 44520, 45079, 45641, 46208, 46778, 47353, 47932, 48515, 49102, 49693, 50289, 50888, 51492, 52100,
       52712, 53328, 53948, 54572, 55201, 55834, 56471, 57112, 57758, 58408, 59062, 59720, 60383, 61050, 61721, 62396,
       63076, 63760, 64448, 65141, 65837, 66539, 67244, 67954, 68669, 69387, 70110, 70838, 71569, 72306, 73046, 73791,
       74540, 75294, 76052, 76815, 77582, 78354, 79130, 79910, 80695, 81485, 82279, 83077, 83880, 84687, 85499, 86316,
       87137, 87962, 88792, 89627, 90466, 91310, 92158, 93011, 93869, 94731, 95597, 96469, 97345, 98225, 99110, 100000 >>

\* luminance_x of a channel given in units of 1/FR (0 .. 255 * FR):
\* the table value, interpolated linearly between integer channels.
interpolate(lo, hi, f) == lo + RoundDiv((hi - lo) * f, FR)

luminance_x(ch) ==
    IF ch \div FR >= 255 THEN LinearTable[256]
    ELSE interpolate(LinearTable[(ch \div FR) + 1],
                     LinearTable[(ch \div FR) + 2], ch % FR)

\* rgb2luminance: 0.2126 r + 0.7152 g + 0.0722 b over the linearised channels
rgb2luminance(chr, chg, chb) ==
    RoundDiv(2126 * luminance_x(chr) + 7152 * luminance_x(chg)
             + 722 * luminance_x(chb), 10000)

\* the channel offset t3 of hsl2rgb wrapped into one turn:
\* if (t3 < 0) t3 += 1; if (t3 > 1) t3 -= 1   (units of 1/(360*SC) of a turn)
wrapTurn(t3) ==
    IF t3 < 0 THEN t3 + 360 * SC
    ELSE IF t3 > 360 * SC THEN t3 - 360 * SC ELSE t3

\* Math.round(c * 255) for c in units of 1/(FR*FR)
round255(c) == RoundDiv(RoundDiv(c, (FR * FR) \div 1000000) * 255, 1000000)

\* One channel of hsl2rgb for a saturated colour.  t1, t2 in units of
\* 1/(FR*FR); t3 is the channel's wrapped hue offset.  Every comparison
\* with a NaN hue is false, which leaves c = t1.
hslChannel(t1, t2, t3, hIsNaN) ==
    round255(IF hIsNaN THEN t1
             ELSE IF 6 * t3 < 360 * SC
                  THEN t1 + MulDivRound(t2 - t1, t3, 60 * SC)
             ELSE IF 2 * t3 < 360 * SC THEN t2
             ELSE IF 3 * t3 < 2 * 360 * SC
                  THEN t1 + MulDivRound(t2 - t1, 240 * SC - t3, 60 * SC)
             ELSE t1)

\* clip_rgb: a channel (units of 1/FR) limited to [0, 255]
clip(ch) == Max2(0, Min2(255 * FR, ch))

hslChannels(h, t1, t2) ==
    [r |-> clip(FR * hslChannel(t1, t2, wrapTurn(h + 120 * SC), h = NaN)),
     g |-> clip(FR * hslChannel(t1, t2, wrapTurn(h), h = NaN)),
     b |-> clip(FR * hslChannel(t1, t2, wrapTurn(h - 120 * SC), h = NaN))]

greyChannels(ch) == [r |-> ch, g |-> ch, b |-> ch]

\* chroma.hsl(h, s/100, l/100): the colour's internal channels in units of
\* 1/FR, clipped to [0, 255].  A grey keeps l*255 unrounded; a saturated
\* colour's channels are rounded by hsl2rgb.
\*   t2 = l < 0.5 ? l * (1 + s) : l + s - l * s;   t1 = 2 * l - t2
hsl2rgbT2(h, l, t2) == hslChannels(h, 2 * l * FR - t2, t2)

hsl2rgb(h, s, l) ==
    IF s = 0 THEN greyChannels(clip(l * 255))
    ELSE hsl2rgbT2(h, l, IF l < FR \div 2 THEN l * (FR + s)
                         ELSE (l + s) * FR - l * s)

\* the Color record from (h, s, l) and chroma's internal channels c: rgb is
\* chroma's rounded .rgb(), luminance is taken from the unrounded channels
colorRecord(h, s, l, c) ==
    [h |-> h, s |-> s, l |-> l,
     rgb |-> [r |-> RoundDiv(c.r, FR), g |-> RoundDiv(c.g, FR),
              b |-> RoundDiv(c.b, FR)],
     luminance |-> rgb2luminance(c.r, c.g, c.b)]

\* createColor whose channels darken again above the lightness 95
createColorFolded(h, s, l) ==
    colorRecord(h, s, l,
                hsl2rgb(h, s, IF l > 95 * SC THEN 190 * SC - l ELSE l))

createColor(h, s, l) == colorRecord(h, s, l, hsl2rgb(h, s, l))

(***************************************************************************)
(* State.                                                                  *)
(*   springConnections  the springConnections store: a list of             *)
(*                      {index1, index2} records                           *)
(*   velocities         the spring system's Map index -> {h, s, l}         *)
(*   css                the --spring-constant / --damping / --timestep     *)
(*                      custom properties, in thousandths (NaN: not set)   *)
(*   colors             the palette store, an array indexed from 0         *)
(*   lockedColors       the locked-index set store                         *)
(*   lastStep           what the latest simulateStep call read, computed   *)
(*                      and returned (history of the call), with the       *)
(*                      locked set and the velocities the call before it   *)
(*                      read                                               *)
(*   nOps, nSteps       number of store operations / simulateStep calls    *)
(*                      performed so far                                   *)
(*   lastOp, lastArgs   the name and the index arguments of the latest     *)
(*                      operation                                          *)
(*   startColor, endColor, hslGradientSteps, evenLumGradientSteps,         *)
(*   oklabGradientSteps the ColorGradients component's props and the       *)
(*                      three reactive gradient arrays                     *)
(*   arg, ret           the arguments and the outcome of one call of a     *)
(*                      function of color.ts / springs.ts / a component    *)
(*                      (ret is the value returned, or a thrown error)     *)
(*   activeColor        the activeColor store: the Color being edited, or  *)
(*                      null                                               *)
(*   isRelaxing, animationFrameId                                          *)
(*                      ColorGrid's relaxation flag and frame handle       *)
(*   pendingFrames      the requestAnimationFrame callbacks not yet run    *)
(*                      or cancelled (their ids)                           *)
(*   framesRequested    number of requestAnimationFrame calls so far       *)
(***************************************************************************)
VARIABLES springConnections, velocities, css, colors, lockedColors,
          lastStep, nOps, nSteps, lastOp, lastArgs,
          startColor, endColor,
          hslGradientSteps, evenLumGradientSteps, oklabGradientSteps,
          arg, ret, activeColor,
          isRelaxing, animationFrameId, pendingFrames, framesRequested

connVars   == <<springConnections>>
springVars == <<velocities, css, colors, lockedColors, lastStep>>
gradVars   == <<startColor, endColor,
                hslGradientSteps, evenLumGradientSteps, oklabGradientSteps>>
callVars   == <<arg, ret, activeColor>>
relaxVars  == <<isRelaxing, animationFrameId, pendingFrames, framesRequested>>
vars       == <<springConnections, velocities, css, colors, lockedColors,
                lastStep, nOps, nSteps, lastOp, lastArgs, startColor, endColor,
                hslGradientSteps, evenLumGradientSteps, oklabGradientSteps,
                arg, ret, activeColor,
                isRelaxing, animationFrameId, pendingFrames, framesRequested>>

DEFAULT_SPRING_CONSTANT == 100      \* 0.1, in thousandths
DEFAULT_DAMPING == 200              \* 0.2, in thousandths
DEFAULT_TIMESTEP == 1000            \* 1.0, in thousandths
MILLI == 10 ^ 3

(***************************************************************************)
(* Connection store operations (springs.ts).  Each returns the new list.   *)
(***************************************************************************)
SameEdge(conn, index1, index2) ==
    \/ conn.index1 = index1 /\ conn.index2 = index2
    \/ conn.index1 = index2 /\ conn.index2 = index1

\* addSpringConnection comparing the stored orientation only
addSpringConnectionOneWay(connections, index1, index2) ==
    IF \E k \in 1..Len(connections) :
          connections[k].index1 = index1 /\ connections[k].index2 = index2
    THEN connections
    ELSE Append(connections, [index1 |-> index1, index2 |-> index2])

addSpringConnection(connections, index1, index2) ==
    LET exists == \E k \in 1..Len(connections) :
                      SameEdge(connections[k], index1, index2)
    IN  IF ~exists
        THEN Append(connections, [index1 |-> index1, index2 |-> index2])
        ELSE connections

\* removeSpringConnection filtering on the orientation given only
removeSpringConnectionOneWay(connections, index1, index2) ==
    SelectSeq(connections,
              LAMBDA conn : ~(conn.index1 = index1 /\ conn.index2 = index2))

removeSpringConnection(connections, index1, index2) ==
    SelectSeq(connections, LAMBDA conn : ~SameEdge(conn, index1, index2))

clearSpringConnections == << >>

\* the store holds a list when a loop pass starts: the passes run one
\* after another, each on the list the one before it left
stored(connections) == Len(connections) >= 0

\* createCircularChain(indices), indices an array given as a sequence:
\* for i = 0 .. length-1, addSpringConnection(indices[i], indices[(i+1) % length])
RECURSIVE chainFrom(_, _, _)
chainFrom(connections, indices, i) ==
    IF stored(connections) /\ i > Len(indices) THEN connections
    ELSE chainFrom(addSpringConnection(connections, indices[i],
                                       indices[(i % Len(indices)) + 1]),
                   indices, i + 1)

createCircularChain(connections, indices) == chainFrom(connections, indices, 1)

\* initializeDefaultConnections: clear, then for colorIndex 0..4, for
\* groupIndex 0..1, chain the indices groupIndex*30 + i*5 + colorIndex, i = 0..5
\* defaultChainIndices with a slot stride of 6 in place of 5
defaultChainIndicesStride6(groupIndex, colorIndex) ==
    [i \in 1..6 |-> groupIndex * 30 + (i - 1) * 6 + colorIndex]

defaultChainIndices(groupIndex, colorIndex) ==
    [i \in 1..6 |-> groupIndex * 30 + (i - 1) * 5 + colorIndex]

\* the chains from number n on: chain n is the one of colorIndex n \div 2
\* and groupIndex n % 2
RECURSIVE defaultChainsFrom(_, _)
defaultChainsFrom(connections, n) ==
    IF stored(connections) /\ n >= 5 * 2 THEN connections
    ELSE defaultChainsFrom(
             createCircularChain(connections,
                                 defaultChainIndices(n % 2, n \div 2)),
             n + 1)

initializeDefaultConnections == defaultChainsFrom(clearSpringConnections, 0)

(***************************************************************************)
(* The spring system (springs.ts, createSpringSystem).                     *)
(***************************************************************************)
\* a getDamping that falls back to the default for NaN alone
getDampingZeroKept ==
    IF css.damping = NaN THEN DEFAULT_DAMPING ELSE css.damping

\* parseFloat(getPropertyValue(..)) || DEFAULT: NaN and 0 are falsy
getSpringConstant ==
    IF css.springConstant = NaN \/ css.springConstant = 0
    THEN DEFAULT_SPRING_CONSTANT ELSE css.springConstant

getDamping ==
    IF css.damping = NaN \/ css.damping = 0
    THEN DEFAULT_DAMPING ELSE css.damping

getTimestep ==
    IF css.timestep = NaN \/ css.timestep = 0
    THEN DEFAULT_TIMESTEP ELSE css.timestep

\* a / d rounded to the nearest unit, for any d # 0
Quot(a, d) == IF d > 0 THEN RoundDiv(a, d) ELSE RoundDiv(0 - a, 0 - d)

\* 0.5 * (targetLuminance - color.luminance) / (luminanceDiff || 0.001),
\* a lightness in units of 1/SC
\* lightnessChange from the target luminance itself, not from its
\* difference to the colour's luminance
lightnessChangeAbsolute(color, targetLuminance, luminanceDiff) ==
    Quot(SC * targetLuminance,
         2 * (IF luminanceDiff = 0 THEN LQ \div 1000 ELSE luminanceDiff))

lightnessChange(color, targetLuminance, luminanceDiff) ==
    Quot(SC * (targetLuminance - color.luminance),
         2 * (IF luminanceDiff = 0 THEN LQ \div 1000 ELSE luminanceDiff))

estimateLightnessChange(color, targetLuminance) ==
    lightnessChange(color, targetLuminance,
        createColor(color.h, color.s, color.l + SC).luminance
            - color.luminance)

ZeroVelocity == [h |-> 0, s |-> 0, l |-> 0]

\* initializeVelocities(colors): clear, then a zero triple per index
initializeVelocities(palette) == [i \in DOMAIN palette |-> ZeroVelocity]

\* calculateSpringForce whose second wrap test reads diff < 180
calculateSpringForceWrapBelow180(pos1, pos2) ==
    LET diff0 == pos2 - pos1
        diff1 == IF diff0 > 180 * SC THEN diff0 - 360 * SC ELSE diff0
        diff2 == IF diff1 < 180 * SC THEN diff1 + 360 * SC ELSE diff1
    IN  RoundDiv(diff2 * getSpringConstant, MILLI)

\* calculateSpringForce without the two wrap tests
calculateSpringForceNoWrap(pos1, pos2) ==
    RoundDiv((pos2 - pos1) * getSpringConstant, MILLI)

calculateSpringForce(pos1, pos2) ==
    LET diff0 == pos2 - pos1
        diff1 == IF diff0 > 180 * SC THEN diff0 - 360 * SC ELSE diff0
        diff2 == IF diff1 < 0 - 180 * SC THEN diff1 + 360 * SC ELSE diff1
    IN  RoundDiv(diff2 * getSpringConstant, MILLI)

\* the neighbours of index, in the order of the connection list
getConnectedIndices(connections, index) ==
    LET touching == SelectSeq(connections,
                        LAMBDA conn : conn.index1 = index \/ conn.index2 = index)
    IN  [k \in 1..Len(touching) |->
            IF touching[k].index1 = index THEN touching[k].index2
            ELSE touching[k].index1]

\* lockedIndices.has(i): the index is skipped by both loops
isLockedNever(lockedIndices, i) == FALSE     \* the skip of locked indices removed

isLocked(lockedIndices, i) == i \in lockedIndices

\* one pass of the inner loop: the three sums with connectedColor's share
addForces(color, connectedColor, total) ==
    [h |-> total.h + calculateSpringForce(color.h, connectedColor.h),
     s |-> total.s + RoundDiv((connectedColor.s - color.s) * getSpringConstant,
                              MILLI),
     luminance |-> total.luminance
                   + RoundDiv((connectedColor.luminance - color.luminance)
                              * getSpringConstant, MILLI)]

\* the sums of the inner loop over connectedIndices[k..], from total
RECURSIVE totalForces(_, _, _, _, _)
totalForces(palette, color, connectedIndices, k, total) ==
    IF k > Len(connectedIndices) THEN total
    ELSE totalForces(palette, color, connectedIndices, k + 1,
                     addForces(color, palette[connectedIndices[k]], total))

\* forces.set(i, {h: totalForceH, s: totalForceS, l: lightnessForce})
forceRecord(color, total) ==
    [h |-> total.h,
     s |-> total.s,
     l |-> estimateLightnessChange(color, color.luminance + total.luminance)]

\* the force triple the first loop stores for index i
forceOn(palette, connections, i) ==
    forceRecord(palette[i],
                totalForces(palette, palette[i],
                            getConnectedIndices(connections, i), 1,
                            [h |-> 0, s |-> 0, luminance |-> 0]))

\* vel.x = (vel.x + force.x * timestep) * (1 - damping)
updateVelocity(vel, force) ==
    LET upd(v, f) == RoundDiv((v + RoundDiv(f * getTimestep, MILLI))
                              * (MILLI - getDamping), MILLI)
    IN  [h |-> upd(vel.h, force.h), s |-> upd(vel.s, force.s),
         l |-> upd(vel.l, force.l)]

\* a % n of JavaScript: the remainder takes the sign of the dividend
jsRemainder(a, n) == IF a >= 0 THEN a % n ELSE 0 - ((0 - a) % n)

\* let newH = sum % 360; if (newH < 0) newH += 360, for a sum counted in
\* 1/(SC * MILLI).  A stored hue has the resolution 1/SC, which stands for
\* the spacing of the doubles below 360; a negative remainder is finer than
\* that, and newH + 360 is rounded to the nearest stored value, which is 360
\* itself when the remainder is above minus half a unit.
wrappedHue(sum) ==
    IF jsRemainder(sum, 360 * SC * MILLI) < 0
    THEN RoundDiv(jsRemainder(sum, 360 * SC * MILLI) + 360 * SC * MILLI, MILLI)
    ELSE RoundDiv(sum, MILLI) % (360 * SC)

\* the Color written for an unlocked index, from its updated velocity
movedColor(color, vel) ==
    LET newH == wrappedHue(color.h * MILLI + vel.h * getTimestep)
        newS == Max2(0, Min2(100 * SC,
                             color.s + RoundDiv(vel.s * getTimestep, MILLI)))
        newL == Max2(0, Min2(100 * SC,
                             color.l + RoundDiv(vel.l * getTimestep, MILLI)))
    IN  createColor(newH, newS, newL)

SetMin(S) == CHOOSE m \in S : \A o \in S : m <= o
PaletteLen(palette) == Cardinality(DOMAIN palette)

(***************************************************************************)
(* simulateStep(colors, lockedIndices) with the velocity map vel0 and the  *)
(* connection list.  The call either returns newColors or throws a         *)
(* TypeError: in the force loop when a neighbour index is not an index of  *)
(* the palette (colors[connectedIndex] is undefined), or in the update     *)
(* loop at the first unlocked index without a velocity entry               *)
(* (velocities.get(i) is undefined); the velocities updated before the     *)
(* throw stay updated.                                                     *)
(***************************************************************************)
\* input is what the array passed as colors holds when the call ends: every
\* write of the call goes to newColors, the copy [...colors]
stepThrew(velInit, velNow, forces, palette) ==
    [outcome |-> "threw", velBefore |-> velInit, velocities |-> velNow,
     forces |-> forces, result |-> << >>, input |-> palette]

\* an update loop that sets the velocity of the locked indices to zero
velocitiesUpToZeroingLocked(velInit, unlocked, forces, upTo) ==
    [i \in DOMAIN velInit |->
        IF i \in unlocked
        THEN IF i < upTo THEN updateVelocity(velInit[i], forces[i])
             ELSE velInit[i]
        ELSE ZeroVelocity]

\* the velocity map after the update loop has run over the indices below upTo
velocitiesUpTo(velInit, unlocked, forces, upTo) ==
    [i \in DOMAIN velInit |->
        IF i \in unlocked /\ i < upTo
        THEN updateVelocity(velInit[i], forces[i])
        ELSE velInit[i]]

\* the Colors of newColors when the update loop is through
writtenColors(velNew, palette, unlocked) ==
    [i \in DOMAIN palette |->
        IF i \in unlocked THEN movedColor(palette[i], velNew[i])
        ELSE palette[i]]

\* a step with const newColors = colors: the writes land in the input array
stepReturnedInPlace(velInit, velNew, palette, unlocked, forces) ==
    [outcome |-> "returned", velBefore |-> velInit, velocities |-> velNew,
     forces |-> forces,
     result |-> writtenColors(velNew, palette, unlocked),
     input |-> writtenColors(velNew, palette, unlocked)]

\* a step whose positions move by the velocities the step started from
stepReturnedByOldVelocity(velInit, velNew, palette, unlocked, forces) ==
    [outcome |-> "returned", velBefore |-> velInit, velocities |-> velNew,
     forces |-> forces,
     result |-> writtenColors(velInit, palette, unlocked),
     input |-> palette]

stepReturned(velInit, velNew, palette, unlocked, forces) ==
    [outcome |-> "returned", velBefore |-> velInit, velocities |-> velNew,
     forces |-> forces,
     result |-> writtenColors(velNew, palette, unlocked),
     input |-> palette]

\* the second loop: velocities and positions
updateLoop(velInit, palette, unlocked, forces) ==
    IF \E i \in unlocked : i \notin DOMAIN velInit
    THEN stepThrew(velInit,
                   velocitiesUpTo(velInit, unlocked, forces,
                       SetMin({i \in unlocked : i \notin DOMAIN velInit})),
                   forces, palette)
    ELSE stepReturned(velInit,
                      velocitiesUpTo(velInit, unlocked, forces,
                                     PaletteLen(palette)),
                      palette, unlocked, forces)

\* a single loop over the indices from i on, each index taking its force
\* from the array as the indices before it left it
RECURSIVE oneLoopFrom(_, _, _, _, _, _)
oneLoopFrom(i, velNow, connections, current, unlocked, forces) ==
    IF i >= PaletteLen(current)
    THEN [velocities |-> velNow, colors |-> current, forces |-> forces]
    ELSE IF i \notin unlocked
    THEN oneLoopFrom(i + 1, velNow, connections, current, unlocked, forces)
    ELSE LET force == forceOn(current, connections, i)
             vel   == updateVelocity(velNow[i], force)
         IN  oneLoopFrom(i + 1, [velNow EXCEPT ![i] = vel], connections,
                         [current EXCEPT ![i] = movedColor(current[i], vel)],
                         unlocked, (i :> force) @@ forces)

\* a step that computes each force when it updates the index
forceLoopInterleaved(velInit, connections, palette, unlocked) ==
    IF \E i \in unlocked :
          \E k \in DOMAIN getConnectedIndices(connections, i) :
             getConnectedIndices(connections, i)[k] \notin DOMAIN palette
    THEN stepThrew(velInit, velInit, << >>, palette)
    ELSE IF \E i \in unlocked : i \notin DOMAIN velInit
    THEN updateLoop(velInit, palette, unlocked,
                    [i \in unlocked |-> forceOn(palette, connections, i)])
    ELSE LET loop == oneLoopFrom(0, velInit, connections, palette, unlocked,
                                 << >>)
         IN  [outcome |-> "returned", velBefore |-> velInit,
              velocities |-> loop.velocities, forces |-> loop.forces,
              result |-> loop.colors, input |-> palette]

\* the first loop: forces
forceLoop(velInit, connections, palette, unlocked) ==
    IF \E i \in unlocked :
          \E k \in DOMAIN getConnectedIndices(connections, i) :
             getConnectedIndices(connections, i)[k] \notin DOMAIN palette
    THEN stepThrew(velInit, velInit, << >>, palette)
    ELSE updateLoop(velInit, palette, unlocked,
                    [i \in unlocked |-> forceOn(palette, connections, i)])

simulateStep(vel0, connections, palette, lockedIndices) ==
    forceLoop(IF DOMAIN vel0 = {} THEN initializeVelocities(palette) ELSE vel0,
              connections, palette,
              {i \in DOMAIN palette : ~isLocked(lockedIndices, i)})

(***************************************************************************)
(* oklabMix (color.ts) and chroma-js's rgb2hsl.  Opponent-space values     *)
(* count 1/OQ.                                                             *)
(***************************************************************************)
OQ == 10 ^ 6

\* round(a * b / OQ) for a, b >= 0 (both below 2^31 / 1000), two limbs each
MulQPos(a, b) ==
    LET a1 == a \div 1000
        a0 == a % 1000
        b1 == b \div 1000
        b0 == b % 1000
        m  == a1 * b0 + a0 * b1
    IN  a1 * b1 + (m \div 1000)
        + (((m % 1000) * 1000 + a0 * b0 + OQ \div 2) \div OQ)

MulQ(a, b) ==
    IF (a < 0) = (b < 0) THEN MulQPos(Abs(a), Abs(b))
    ELSE 0 - MulQPos(Abs(a), Abs(b))

cube(v) == MulQ(MulQ(v, v), v)

\* Math.pow(v, 1/3) for v >= 0: the largest y with y*y*y <= v, by bisection
RECURSIVE cbrtBetween(_, _, _)
cbrtBetween(v, lo, hi) ==
    IF hi - lo <= 1 THEN lo
    ELSE LET mid == (lo + hi) \div 2
         IN  IF cube(mid) <= v
             THEN cbrtBetween(v, mid, hi)
             ELSE cbrtBetween(v, lo, mid)

cbrt(v) == cbrtBetween(v, 0, 2 * OQ)

CONE_TO_LMS ==
    << <<412166, 211859,  88310>>,
       <<536275, 680719, 281847>>,
       << 51458, 107407, 630261>> >>

LMS_TO_CONE ==
    << << 4076725, -1268144,   -4112>>,
       <<-3307217,  2609332, -703476>>,
       <<  230759,  -341134, 1706863>> >>

\* matrix.map(row => row.reduce((sum, value, index) => sum + value * vector[index], 0))
multiplyMatrixVector(matrix, vector) ==
    [i \in 1..3 |-> MulQ(matrix[i][1], vector[1]) + MulQ(matrix[i][2], vector[2])
                    + MulQ(matrix[i][3], vector[3])]

\* chroma.rgb(r, g, b).hsl(), scaled as createColor takes it:
\* <<h, s * 100, l * 100>>; the hue of a grey is NaN
rgb2hsl(r, g, b) ==
    LET min == Min2(r, Min2(g, b))
        max == Max2(r, Max2(g, b))
        l   == RoundDiv((max + min) * 100 * SC, 2 * 255)
        s   == IF max = min THEN 0
               ELSE IF max + min < 255
                    THEN RoundDiv((max - min) * 100 * SC, max + min)
                    ELSE RoundDiv((max - min) * 100 * SC, 2 * 255 - max - min)
        h0  == IF max = min THEN NaN
               ELSE IF r = max THEN Quot((g - b) * 60 * SC, max - min)
               ELSE IF g = max
                    THEN 2 * 60 * SC + Quot((b - r) * 60 * SC, max - min)
               ELSE 4 * 60 * SC + Quot((r - g) * 60 * SC, max - min)
        h   == IF max # min /\ h0 < 0 THEN h0 + 360 * SC ELSE h0
    IN  <<h, s, l>>

\* the first half of oklabMix for one colour: rgb / 255, the cone matrix and
\* the cube root of each component clamped at 0
toLMS(color) ==
    LET m == multiplyMatrixVector(CONE_TO_LMS,
                 <<RoundDiv(color.rgb.r * OQ, 255),
                   RoundDiv(color.rgb.g * OQ, 255),
                   RoundDiv(color.rgb.b * OQ, 255)>>)
    IN  [k \in 1..3 |-> cbrt(Max2(0, m[k]))]

\* Math.round(Math.max(0, Math.min(255, v * 255)))
channel255(v) == RoundDiv(Max2(0, Min2(OQ, v)) * 255, OQ)

\* createColor(h, s * 100, l * 100) of chroma.rgb(..).hsl()
colorFromHsl(hsl) == createColor(hsl[1], hsl[2], hsl[3])

colorFromLinear(rgb) ==
    colorFromHsl(rgb2hsl(channel255(rgb[1]), channel255(rgb[2]),
                         channel255(rgb[3])))

\* the second half of oklabMix, for t = i / n: interpolation, midpoint gain
\* 1 + 0.2 t (1 - t), cube, inverse matrix, clamp and round to 0..255,
\* chroma's hsl(), createColor
mixLMS(lms1, lms2, i, n) ==
    colorFromLinear(
        multiplyMatrixVector(LMS_TO_CONE,
            [k \in 1..3 |->
                cube(MulQ(RoundDiv(lms1[k] * (n - i) + lms2[k] * i, n),
                          OQ + RoundDiv(2 * OQ * i * (n - i), 10 * n * n)))]))

\* oklabMix(color1, color2, t) for t = i / n
oklabMix(color1, color2, i, n) == mixLMS(toLMS(color1), toLMS(color2), i, n)

(***************************************************************************)
(* The gradient generators (ColorGradients.svelte).  null is a missing     *)
(* endpoint; an array is a sequence (array[0] is sequence[1]).             *)
(***************************************************************************)
null == [null |-> TRUE]
steps == 20
Infinity == 2 ^ 30

\* ((endHue - startHue + 540) % 360) - 180
shortestHueDiff(startHue, endHue) ==
    ((endHue - startHue + 540 * SC) % (360 * SC)) - 180 * SC

\* start + t * (end - start) for t = i / steps
lerp(a, b, i) == a + RoundDiv(i * (b - a), steps)

\* (startHue + hueDiff * t + 360) % 360
hueAt(start, end, i) ==
    (start.h + RoundDiv(shortestHueDiff(start.h, end.h) * i, steps) + 360 * SC)
        % (360 * SC)

\* generateHSLGradient whose loop runs to i <= steps
generateHSLGradientInclusive(start, end) ==
    IF start = null \/ end = null THEN << >>
    ELSE <<start>>
         \o [i \in 1..steps |->
                createColor(hueAt(start, end, i), lerp(start.s, end.s, i),
                            lerp(start.l, end.l, i))]
         \o <<end>>

generateHSLGradient(start, end) ==
    IF start = null \/ end = null THEN << >>
    ELSE <<start>>
         \o [i \in 1..(steps - 1) |->
                createColor(hueAt(start, end, i), lerp(start.s, end.s, i),
                            lerp(start.l, end.l, i))]
         \o <<end>>

\* One probe of the lightness scan of generateEvenLumGradient: scan is
\* [color, diff, done]; the best colour is replaced on a strictly smaller
\* difference, and a probe within 0.001 of the target ends the scan (break)
probeResult(testColor, luminanceDiff, scan) ==
    [color |-> IF luminanceDiff < scan.diff THEN testColor ELSE scan.color,
     diff  |-> IF luminanceDiff < scan.diff THEN luminanceDiff ELSE scan.diff,
     done  |-> luminanceDiff < LQ \div 1000]

probeColor(testColor, targetLum, scan) ==
    probeResult(testColor, Abs(testColor.luminance - targetLum), scan)

probeLightness(h, s, targetLum, l, scan) ==
    probeColor(createColor(h, s, l), targetLum, scan)

\* for (l = 0; l <= 100; l += 0.2): the probes number lo .. hi of the loop,
\* in order (probe k has l = 0.2 * k), halving the range to bound the depth.
\* The loop has the probes 0 .. 499: the sum of 500 doubles 0.2 is
\* 100.00000000000088, above 100, so the probe of l = 100 is never made.
RECURSIVE scanLightness(_, _, _, _, _, _)
scanLightness(h, s, targetLum, lo, hi, scan) ==
    IF scan.done \/ lo > hi THEN scan
    ELSE IF lo = hi
         THEN probeLightness(h, s, targetLum, lo * (SC \div 5), scan)
    ELSE scanLightness(h, s, targetLum, ((lo + hi) \div 2) + 1, hi,
             scanLightness(h, s, targetLum, lo, (lo + hi) \div 2, scan))

evenLumStep(start, end, i) ==
    scanLightness(hueAt(start, end, i), lerp(start.s, end.s, i),
                  lerp(start.luminance, end.luminance, i), 0, 5 * 100 - 1,
                  [color |-> null, diff |-> Infinity, done |-> FALSE]).color

\* generateEvenLumGradient returning early only when both endpoints are
\* missing, and the endpoints alone otherwise
generateEvenLumGradientBothNull(start, end) ==
    IF start = null /\ end = null THEN << >>
    ELSE <<start>> \o <<end>>

generateEvenLumGradient(start, end) ==
    IF start = null \/ end = null THEN << >>
    ELSE <<start>>
         \o SelectSeq([i \in 1..(steps - 1) |-> evenLumStep(start, end, i)],
                      LAMBDA bestColor : bestColor # null)
         \o <<end>>

generateOKLabGradient(start, end) ==
    IF start = null \/ end = null THEN << >>
    ELSE LET lms1 == toLMS(start)      \* oklabMix(start, end, i / steps),
             lms2 == toLMS(end)        \* the endpoints converted once
         IN  [k \in 1..(steps + 1) |-> mixLMS(lms1, lms2, k - 1, steps)]

(***************************************************************************)
(* parseColors (the save/load panel).  The text is a sequence of lines; a  *)
(* line is given by what the parser can tell of it:                        *)
(*   [kind |-> "Group" | "Palette" | "Color", n |-> parseInt of the word   *)
(*        after the first blank, NaN when it is no number]                 *)
(*   [kind |-> "HSL", h, s, l]   a line whose trimmed text starts "HSL:",  *)
(*        with the three parseFloat values in units of 1/SC                *)
(*   [kind |-> "other"]          any other line                            *)
(* A JavaScript array is [elements, length]: elements maps the assigned    *)
(* indices to their values, the other indices below length are holes.      *)
(***************************************************************************)
undefined == [undefined |-> TRUE]

\* new Array(60)
newArray60 == [elements |-> << >>, length |-> 60]

\* array[index] = value
arrayAssign(array, index, value) ==
    [elements |-> [i \in DOMAIN array.elements \cup {index} |->
                      IF i = index THEN value ELSE array.elements[i]],
     length   |-> Max2(array.length, index + 1)]

\* !c for an array element
falsy(c) == c = null \/ c = undefined

\* array.some(c => !c): the callback runs for assigned indices only
arraySomeFalsy(array) == \E i \in DOMAIN array.elements : falsy(array.elements[i])

\* parseInt(..) - 1
minusOne(n) == IF n = NaN THEN NaN ELSE n - 1

\* current >= 0, false for NaN
nonNegative(current) == current # NaN /\ current >= 0

parseStart ==
    [newColors |-> newArray60, currentGroup |-> 0 - 1, currentPalette |-> 0 - 1,
     currentColor |-> 0 - 1]

\* the body of the loop over the lines, for one line
parseLine(st, line) ==
    IF line.kind = "Group"
    THEN [st EXCEPT !.currentGroup = minusOne(line.n), !.currentPalette = 0 - 1]
    ELSE IF line.kind = "Palette"
    THEN [st EXCEPT !.currentPalette = minusOne(line.n), !.currentColor = 0 - 1]
    ELSE IF line.kind = "Color"
    THEN [st EXCEPT !.currentColor = minusOne(line.n)]
    ELSE IF line.kind = "HSL"
            /\ nonNegative(st.currentGroup) /\ nonNegative(st.currentPalette)
            /\ nonNegative(st.currentColor)
    THEN [st EXCEPT !.newColors =
             arrayAssign(@, st.currentGroup * 30 + st.currentPalette * 5
                             + st.currentColor,
                         createColor(line.h, line.s, line.l))]
    ELSE st

\* the loop over lines[lo..hi] in order, from the parser state st (the
\* range is halved to bound the evaluation depth)
RECURSIVE parseLines(_, _, _, _)
parseLines(st, lines, lo, hi) ==
    IF nonNegative(st.newColors.length) /\ lo > hi THEN st
    ELSE IF lo = hi THEN parseLine(st, lines[lo])
    ELSE parseLines(parseLines(st, lines, lo, (lo + hi) \div 2),
                    lines, ((lo + hi) \div 2) + 1, hi)

\* the check after the loop: a throw (caught, null returned) when some
\* callback finds a falsy element, the array otherwise
verifiedColors(newColors) ==
    IF arraySomeFalsy(newColors) THEN null ELSE newColors

parseColors(text) ==
    verifiedColors(parseLines(parseStart, text, 1, Len(text)).newColors)

(***************************************************************************)
(* The luminance searches (color.ts, ColorGeneration.svelte).  A call that *)
(* throws yields TypeError.  Luminances count 1/LQ.                        *)
(***************************************************************************)
TypeError == [threw |-> "TypeError"]

\* the reducer of findClosestColorByLuminance
closerOf(closest, current, targetLuminance) ==
    IF Abs(current.luminance - targetLuminance)
          < Abs(closest.luminance - targetLuminance)
    THEN current ELSE closest

\* the reduce over candidates[k..] with the accumulator closest
RECURSIVE reduceClosest(_, _, _, _)
reduceClosest(candidates, targetLuminance, k, closest) ==
    IF closest.luminance >= 0 /\ k > Len(candidates) THEN closest
    ELSE reduceClosest(candidates, targetLuminance, k + 1,
                       closerOf(closest, candidates[k], targetLuminance))

\* colors.reduce(..) without an initial value: a TypeError on an empty
\* array, the first element as the first accumulator otherwise
findClosestColorByLuminance(candidates, targetLuminance) ==
    IF Len(candidates) = 0 THEN TypeError
    ELSE reduceClosest(candidates, targetLuminance, 2, candidates[1])

\* findMidLuminanceColor: the lightness (step 0.2) of the grey closest to
\* the target, 50 when no probe ever improves on Infinity
findMidLuminanceColor(targetLuminance) ==
    scanLightness(0, 0, targetLuminance, 0, 5 * 100 - 1,
                  [color |-> [l |-> 50 * SC], diff |-> Infinity,
                   done |-> FALSE]).color.l

\* the lightness values l = 0..100 at which createColor(hue, sat, l) lies
\* within 0.005 of the target
lightnessHits(hue, sat, targetLuminance) ==
    { l \in 0..100 :
        Abs(createColor(hue, sat * SC, l * SC).luminance - targetLuminance)
            < (5 * LQ) \div 1000 }

\* a round that keeps the first saturation found feasible
searchRoundKeepingFirst(b, midSat, hits) ==
    IF hits # {}
    THEN [left |-> midSat, right |-> b.right,
          bestSat |-> IF b.bestSat # 0 THEN b.bestSat ELSE midSat,
          bestLight |-> IF b.bestSat # 0 THEN b.bestLight ELSE SetMin(hits)]
    ELSE [b EXCEPT !.right = midSat]

\* one round of the binary search, given the hits of midSat: the inner loop
\* stops at the first hit
searchRound(b, midSat, hits) ==
    IF hits # {}
    THEN [left |-> midSat, right |-> b.right, bestSat |-> midSat,
          bestLight |-> SetMin(hits)]
    ELSE [b EXCEPT !.right = midSat]

\* while (right - left > 1) { .. }
RECURSIVE searchSaturation(_, _, _)
searchSaturation(hue, targetLuminance, b) ==
    IF b.right - b.left > 1
    THEN searchSaturation(hue, targetLuminance,
             searchRound(b, (b.left + b.right) \div 2,
                 lightnessHits(hue, (b.left + b.right) \div 2,
                               targetLuminance)))
    ELSE b

\* the midSat of each pass of the while loop, in order
RECURSIVE probedSaturations(_, _, _)
probedSaturations(hue, targetLuminance, b) ==
    IF b.right - b.left > 1
    THEN <<(b.left + b.right) \div 2>>
         \o probedSaturations(hue, targetLuminance,
                searchRound(b, (b.left + b.right) \div 2,
                    lightnessHits(hue, (b.left + b.right) \div 2,
                                  targetLuminance)))
    ELSE << >>

\* findHighestSaturationForLuminance(hue, targetLuminance), saturation and
\* lightness in whole units
saturationAndLightness(b) == [saturation |-> b.bestSat, lightness |-> b.bestLight]

findHighestSaturationForLuminance(hue, targetLuminance) ==
    saturationAndLightness(
        searchSaturation(hue, targetLuminance,
            [left |-> 0, right |-> 100, bestSat |-> 0, bestLight |-> 50]))

(***************************************************************************)
(* getDefaultColors (color.ts).  An optional argument is undefined or      *)
(* [value |-> v]; hues count 1/SC of a degree, luminances 1/LQ.            *)
(***************************************************************************)
\* an array literal as a palette indexed from 0
Palette(seq) == [i \in 0..(Len(seq) - 1) |-> seq[i + 1]]

defaultHues ==
    [k \in 1..12 |-> IF k <= 6 THEN (k - 1) * 60 * SC
                     ELSE ((k - 7) * 60 + 30) * SC]

\* for (l = 0; l <= 100; l++) on the greys createColor(hue, 0, l): the
\* probes lo .. hi of the loop in order
RECURSIVE scanGrey(_, _, _, _, _)
scanGrey(hue, midLuminance, lo, hi, scan) ==
    IF scan.done \/ lo > hi THEN scan
    ELSE IF lo = hi
         THEN probeLightness(hue, 0, midLuminance, lo * SC, scan)
    ELSE scanGrey(hue, midLuminance, ((lo + hi) \div 2) + 1, hi,
             scanGrey(hue, midLuminance, lo, (lo + hi) \div 2, scan))

\* midLight: 50 unless a probe improves on Infinity; against an undefined
\* midLuminance every difference is NaN and none does
greyMidLight(hue, midLuminance) ==
    IF midLuminance = undefined THEN 50 * SC
    ELSE scanGrey(hue, midLuminance.value, 0, 100,
                  [color |-> [l |-> 50 * SC], diff |-> Infinity,
                   done |-> FALSE]).color.l

\* Math.min(100, Math.round((colorIndex / 4) * 102))
targetSaturation(colorIndex) == Min2(100, RoundDiv(colorIndex * 102, 4))

\* for (s = targetSat; s <= 100; s++): the lightness scan of each
\* saturation from s on, until the best difference is below 0.001
RECURSIVE searchFromSaturation(_, _, _, _)
searchFromSaturation(hue, targetLuminance, s, best) ==
    IF best.diff < LQ \div 1000 \/ s > 100 THEN best
    ELSE searchFromSaturation(hue, targetLuminance, s + 1,
             scanLightness(hue, s * SC, targetLuminance, 0, 5 * 100 - 1,
                           [best EXCEPT !.done = FALSE]))

\* midLuminance + t * (endLuminance - midLuminance), t = colorIndex / 4
targetLuminanceAt(colorIndex, midLuminance, endLuminance) ==
    midLuminance + RoundDiv(colorIndex * (endLuminance - midLuminance), 4)

\* the colour of position colorIndex when the four luminance arguments are
\* given
searchedColor(hue, midLight, groupIndex, colorIndex, high, mid, low) ==
    IF colorIndex = 0 THEN createColor(hue, 0, midLight)
    ELSE searchFromSaturation(hue,
             targetLuminanceAt(colorIndex, mid,
                               IF groupIndex = 0 THEN high ELSE low),
             targetSaturation(colorIndex),
             [color |-> createColor(hue, 0, midLight), diff |-> Infinity,
              done |-> FALSE]).color

\* the colour of the default interpolation
interpolatedColor(hue, groupIndex, colorIndex) ==
    createColor(hue, 70 * SC,
                IF groupIndex = 0 THEN (85 - colorIndex * 15) * SC
                ELSE (15 + colorIndex * 15) * SC)

\* a palette loop that stops at colorIndex < 4
paletteColorsOfFour(hue, midLight, groupIndex, midLightness, high, mid, low) ==
    [k \in 1..4 |-> interpolatedColor(hue, groupIndex, k - 1)]

\* the five colours pushed for one palette, midLight being its grey lightness
paletteColors(hue, midLight, groupIndex, midLightness, high, mid, low) ==
    [k \in 1..5 |->
        IF midLightness # undefined /\ high # undefined /\ mid # undefined
           /\ low # undefined
        THEN searchedColor(hue, midLight, groupIndex, k - 1, high.value,
                           mid.value, low.value)
        ELSE interpolatedColor(hue, groupIndex, k - 1)]

\* the pushes of the palettes n .. 11 in loop order, palette n being the one
\* of groupIndex n \div 6 and paletteIndex n % 6, with hue hues[hueIndex]
RECURSIVE pushedFrom(_, _, _, _, _, _)
pushedFrom(hues, n, midLightness, high, mid, low) ==
    IF n >= 2 * 6 THEN << >>
    ELSE paletteColors(hues[n + 1], greyMidLight(hues[n + 1], mid), n \div 6,
                       midLightness, high, mid, low)
         \o pushedFrom(hues, n + 1, midLightness, high, mid, low)

\* the array returned, indexed from 0
getDefaultColors(generatorHues, midLightness, highLuminance, midLuminance, lowLuminance) ==
    Palette(pushedFrom(IF generatorHues = undefined THEN defaultHues
                       ELSE generatorHues.value,
                       0, midLightness, highLuminance, midLuminance,
                       lowLuminance))

(***************************************************************************)
(* Inputs and bounds.                                                      *)
(***************************************************************************)
MaxOps == 3          \* store operations per run
MaxSteps == 2        \* simulateStep calls per run
MaxFrames == 3       \* simulateStep calls of the relaxation loop per run

Red    == createColor(0, 100 * SC, 50 * SC)
Blue   == createColor(240 * SC, 100 * SC, 50 * SC)
Grey   == createColor(0, 0, 50 * SC)
Green  == createColor(120 * SC, 60 * SC, 30 * SC)
Rose   == createColor(350 * SC, 40 * SC, 70 * SC)
Brown  == createColor(10 * SC, 60 * SC, 30 * SC)
Sand   == createColor(30 * SC, 70 * SC, 85 * SC)
Red360 == createColor(360 * SC, 70 * SC, 55 * SC)
Black  == createColor(0, 0, 0)
White  == createColor(0, 0, 100 * SC)
Navy   == createColor(240 * SC, 100 * SC, SC)

\* palettes handed to the colors store
PaletteInputs ==
    { Palette(<<Rose, Brown>>),
      Palette(<<Green, Green, Green>>),
      Palette(<<Red360, Grey, Sand>>),
      Palette(<<Red, Rose>>) }

LockInputs  == {0, 1}
EdgeInputs  == {<<0, 1>>, <<1, 2>>}
ChainInput  == <<0, 1, 2>>

\* arguments of the connection operations in the connection-store runs
ConnIndices == {0, 1, 5}
ChainInputs == { << >>, <<3>>, <<0, 1>>, <<0, 1, 2>> }

\* slider positions of the relaxation panel, in thousandths
\* (--spring-constant, --damping, --timestep)
ConfigInputs ==
    { [springConstant |-> 0, damping |-> 1000, timestep |-> 500],
      [springConstant |-> 500, damping |-> 0, timestep |-> 10] }

\* endpoints handed to the ColorGradients component
GradInputs == {null, Red, Blue, Grey, Green, Rose, Sand, Brown}

\* the lines formatColors writes for one colour of a file, the flat index
\* deciding the HSL numbers
otherLine == [kind |-> "other"]
colorLines(index) ==
    << [kind |-> "Color", n |-> (index % 5) + 1],
       [kind |-> "HSL", h |-> ((index * 6) % 360) * SC, s |-> 50 * SC,
        l |-> (20 + index) * SC],
       otherLine, otherLine, otherLine >>

RECURSIVE linesFrom(_, _, _)
linesFrom(index, last, skip) ==
    IF index > last THEN << >>
    ELSE IF index < last
    THEN linesFrom(index, (index + last) \div 2, skip)
         \o linesFrom(((index + last) \div 2) + 1, last, skip)
    ELSE (IF index % 30 = 0
          THEN << [kind |-> "Group", n |-> (index \div 30) + 1], otherLine,
                  otherLine >>
          ELSE << >>)
         \o (IF index % 5 = 0
             THEN << [kind |-> "Palette", n |-> ((index % 30) \div 5) + 1],
                     otherLine >>
             ELSE << >>)
         \o (IF index \in skip THEN << >> ELSE colorLines(index))

\* a file of the save format ("Color Palettes" heading first) holding the
\* colours of the flat indices 0 .. last except those in skip
fileText(last, skip) ==
    << [kind |-> "Color", n |-> NaN], otherLine >> \o linesFrom(0, last, skip)

\* texts handed to parseColors
TextInputs ==
    { fileText(59, {}), fileText(59, 0..59), fileText(60, {}), fileText(89, {}),
      << >>, << otherLine >>, fileText(0, {}) }
    \cup { fileText(59, {k}) : k \in 0..59 }
    \cup { fileText(59, {k, 59 - k}) : k \in 0..9 }

\* Math.floor in place of Math.round
mathFloor(x) == (x \div SC) * SC

\* Math.round(x) of a number counted in 1/SC, counted in 1/SC
mathRound(x) == RoundDiv(x, SC) * SC

\* the lines formatColors writes for one Color: "Color n:", the HSL line with
\* the three rounded numbers, the RGB line, the luminance line, a blank
formattedColor(color, colorIndex) ==
    << [kind |-> "Color", n |-> colorIndex + 1],
       [kind |-> "HSL", h |-> mathRound(color.h), s |-> mathRound(color.s),
        l |-> mathRound(color.l)],
       otherLine, otherLine, otherLine >>

\* the three nested loops of formatColors over the flat indices index..last
\* (the range is halved to bound the evaluation depth)
RECURSIVE formattedFrom(_, _, _)
formattedFrom(palette, index, last) ==
    IF index > last THEN << >>
    ELSE IF index < last
    THEN formattedFrom(palette, index, (index + last) \div 2)
         \o formattedFrom(palette, ((index + last) \div 2) + 1, last)
    ELSE (IF index % 30 = 0
          THEN << [kind |-> "Group", n |-> (index \div 30) + 1], otherLine,
                  otherLine >>
          ELSE << >>)
         \o (IF index % 5 = 0
             THEN << [kind |-> "Palette", n |-> ((index % 30) \div 5) + 1],
                     otherLine >>
             ELSE << >>)
         \o formattedColor(palette[index], index % 5)
         \o (IF index % 5 = 4 THEN << otherLine >> ELSE << >>)
         \o (IF index % 30 = 29 THEN << otherLine >> ELSE << >>)

\* formatColors(colors): the heading "Color Palettes" (a line parseColors
\* reads as a Color line without a number), a blank, and the 60 Colors
formatColors(palette) ==
    << [kind |-> "Color", n |-> NaN], otherLine >>
    \o formattedFrom(palette, 0, 59)

\* palettes of 60 Colors handed to formatColors: fractional h, s and l, among
\* them halves, hues that round to 360 and the ends 0 and 100
FormatInputs ==
    { [i \in 0..59 |->
          createColor((i * 613 + a) % (360 * SC), (i * 177 + a) % (100 * SC + 1),
                      (i * 171 + 100 * SC - a) % (100 * SC + 1))] :
      a \in {0, 50, 35950} }

\* the activeColor a picker edit finds: none, an entry of some palette, or
\* a Color no palette holds
ActiveInputs == { null, Green, Rose, Red, Sand, Blue }

\* what the file dialog of handleLoad yields: no file, or a file's text
LoadInputs ==
    { null, [text |-> fileText(59, {})], [text |-> fileText(59, {7})],
      [text |-> << >>], [text |-> fileText(60, {})] }

\* candidate lists and target luminances (1/LQ) of the luminance searches
CandidateInputs ==
    { << >>, <<Grey>>, <<Red, Blue, Grey>>, <<Sand, Rose, Brown, Green>> }
TargetInputs ==
    { 0, (5 * LQ) \div 100, (216 * LQ) \div 1000, LQ \div 2, (9 * LQ) \div 10,
      LQ, (12 * LQ) \div 10 }
HueInputs == {0, 120 * SC, 240 * SC}

\* hues (1/SC of a degree) of the colour and of its neighbour
HuePairInputs ==
    { d * SC : d \in {0, 10, 90, 170, 179, 180, 181, 190, 350, 360} }

\* arguments of getDefaultColors: the optional hues and the four optional
\* numbers (midLightness, highLuminance, midLuminance, lowLuminance)
generatorHueInputs ==
    { undefined, [value |-> [k \in 1..12 |-> ((k * 95) % 360) * SC]] }
luminanceArgInputs ==
    { [midLightness |-> undefined, high |-> undefined, mid |-> undefined,
       low |-> undefined],
      [midLightness |-> [value |-> 50 * SC], high |-> undefined,
       mid |-> [value |-> (216 * LQ) \div 1000], low |-> undefined],
      [midLightness |-> [value |-> 50 * SC], high |-> [value |-> LQ \div 2],
       mid |-> [value |-> (216 * LQ) \div 1000],
       low |-> [value |-> (5 * LQ) \div 100]],
      [midLightness |-> [value |-> 50 * SC], high |-> [value |-> LQ],
       mid |-> [value |-> (216 * LQ) \div 1000],
       low |-> [value |-> 0]] }

\* arguments of createColor: hues every 30 degrees, saturations every 25,
\* every whole lightness
CreateColorInputs ==
    { [op |-> "createColor", h |-> h * 30 * SC, s |-> s * 25 * SC,
       l |-> l * SC] : h \in 0..11, s \in 0..4, l \in 0..100 }

\* colours whose lightness force is estimated
EstimateInputs == {Black, Navy, Grey, Red, Sand, White}

\* the calls made in the runs of single functions
CallInputs ==
    { [op |-> "parseColors", text |-> text] : text \in TextInputs }
    \cup { [op |-> "findClosestColorByLuminance", colors |-> c,
            targetLuminance |-> t] : c \in CandidateInputs, t \in TargetInputs }
    \cup { [op |-> "findMidLuminanceColor", targetLuminance |-> t] :
             t \in TargetInputs }
    \cup { [op |-> "findHighestSaturationForLuminance", hue |-> h,
            targetLuminance |-> t] : h \in HueInputs, t \in TargetInputs }
    \cup { [op |-> "estimateLightnessChange", color |-> c,
            targetLuminance |-> t] : c \in EstimateInputs, t \in TargetInputs }
    \cup { [op |-> "getDefaultColors", generatorHues |-> hues,
            luminances |-> lums] :
             hues \in generatorHueInputs, lums \in luminanceArgInputs }
    \cup CreateColorInputs
    \cup { [op |-> "handleLoad", file |-> file, palette |-> palette] :
             file \in LoadInputs, palette \in PaletteInputs }
    \cup { [op |-> "handleSave", palette |-> palette] :
             palette \in FormatInputs }
    \cup { [op |-> "updateColor", h |-> new.h, s |-> new.s, l |-> new.l,
            palette |-> palette, activeColor |-> active] :
             new \in {Green, Red, Sand}, palette \in PaletteInputs,
             active \in ActiveInputs }
    \cup { [op |-> "calculateSpringForce", pos1 |-> h1, pos2 |-> h2,
            config |-> config] :
             h1 \in HuePairInputs, h2 \in HuePairInputs,
             config \in ConfigInputs }

NoStep ==
    [called |-> FALSE, palette |-> << >>, locked |-> {}, connections |-> << >>,
     velAtCall |-> << >>, velBefore |-> << >>, forces |-> << >>,
     outcome |-> "none", result |-> << >>, paletteAfter |-> << >>,
     lockedBefore |-> {}, velAtCallBefore |-> << >>]

ConnInit == springConnections = << >>

SpringInit ==
    /\ velocities = << >>
    /\ css = [springConstant |-> NaN, damping |-> NaN, timestep |-> NaN]
    /\ colors = << >>
    /\ lockedColors = {}
    /\ lastStep = NoStep

GradInit ==
    /\ startColor = null
    /\ endColor = null
    /\ hslGradientSteps = << >>
    /\ evenLumGradientSteps = << >>
    /\ oklabGradientSteps = << >>

CountInit == nOps = 0 /\ nSteps = 0 /\ lastOp = "none" /\ lastArgs = << >>

\* no call made
NoCall == [op |-> "none"]
CallInit == arg = NoCall /\ ret = NoCall /\ activeColor = null

\* ColorGrid: let isRelaxing = false; let animationFrameId = null
RelaxInit ==
    /\ isRelaxing = FALSE
    /\ animationFrameId = null
    /\ pendingFrames = {}
    /\ framesRequested = 0

(***************************************************************************)
(* Actions on the connection store.                                        *)
(***************************************************************************)
ConnOp(name, args) ==
    /\ nOps' = nOps + 1
    /\ lastOp' = name
    /\ lastArgs' = args
    /\ UNCHANGED <<springVars, gradVars, callVars, relaxVars, nSteps>>

AddSpringConnection(index1, index2) ==
    /\ nOps < MaxOps
    /\ springConnections'
          = addSpringConnection(springConnections, index1, index2)
    /\ ConnOp("addSpringConnection", <<index1, index2>>)

RemoveSpringConnection(index1, index2) ==
    /\ nOps < MaxOps
    /\ springConnections'
          = removeSpringConnection(springConnections, index1, index2)
    /\ ConnOp("removeSpringConnection", <<index1, index2>>)

ClearSpringConnections ==
    /\ nOps < MaxOps
    /\ springConnections' = clearSpringConnections
    /\ ConnOp("clearSpringConnections", << >>)

CreateCircularChain(indices) ==
    /\ nOps < MaxOps
    /\ springConnections' = createCircularChain(springConnections, indices)
    /\ ConnOp("createCircularChain", indices)

InitializeDefaultConnections ==
    /\ nOps < MaxOps
    /\ springConnections' = initializeDefaultConnections
    /\ ConnOp("initializeDefaultConnections", << >>)

(***************************************************************************)
(* Actions on the palette, the locked set, the relaxation parameters and   *)
(* the spring system.                                                      *)
(***************************************************************************)
\* colors.set(palette): the palette is replaced wholesale
SetColors(palette) ==
    /\ nOps < MaxOps
    /\ colors' = palette
    /\ nOps' = nOps + 1
    /\ lastOp' = "setColors"
    /\ lastArgs' = << >>
    /\ UNCHANGED <<connVars, velocities, css, lockedColors, lastStep,
                   gradVars, callVars, relaxVars, nSteps>>

\* handleColorClick, right button: toggle index in the locked set
ToggleLock(index) ==
    /\ nOps < MaxOps
    /\ lockedColors' = IF index \in lockedColors
                       THEN lockedColors \ {index}
                       ELSE lockedColors \cup {index}
    /\ nOps' = nOps + 1
    /\ lastOp' = "toggleLock"
    /\ lastArgs' = <<index>>
    /\ UNCHANGED <<connVars, velocities, css, colors, lastStep,
                   gradVars, callVars, relaxVars, nSteps>>

\* updateCSSVariables(spring, damp, time) of the relaxation panel
UpdateCSSVariables(config) ==
    /\ nOps < MaxOps
    /\ css' = config
    /\ nOps' = nOps + 1
    /\ lastOp' = "updateCSSVariables"
    /\ lastArgs' = << >>
    /\ UNCHANGED <<connVars, velocities, colors, lockedColors, lastStep,
                   gradVars, callVars, relaxVars, nSteps>>

\* springSystem.reset(colors)
Reset ==
    /\ nOps < MaxOps
    /\ velocities' = initializeVelocities(colors)
    /\ nOps' = nOps + 1
    /\ lastOp' = "reset"
    /\ lastArgs' = << >>
    /\ UNCHANGED <<connVars, css, colors, lockedColors, lastStep,
                   gradVars, callVars, relaxVars, nSteps>>

\* one frame of animate: newColors = simulateStep($colors, $lockedColors);
\* colors.set(newColors).  A throw leaves the store as it was.
SteppedWith(step) ==
    /\ velocities' = step.velocities
    /\ colors' = IF step.outcome = "returned" THEN step.result ELSE colors
    /\ lastStep' = [called |-> TRUE, palette |-> colors,
                    locked |-> lockedColors,
                    connections |-> springConnections,
                    velAtCall |-> velocities,
                    velBefore |-> step.velBefore,
                    forces |-> step.forces,
                    outcome |-> step.outcome,
                    result |-> step.result,
                    paletteAfter |-> step.input,
                    lockedBefore |-> lastStep.locked,
                    velAtCallBefore |-> lastStep.velAtCall]
    /\ nSteps' = nSteps + 1

AnimateWith(step) ==
    /\ SteppedWith(step)
    /\ lastOp' = "simulateStep"
    /\ lastArgs' = << >>
    /\ UNCHANGED <<connVars, css, lockedColors, gradVars, callVars, nOps>>

Animate ==
    /\ nSteps < MaxSteps
    /\ AnimateWith(simulateStep(velocities, springConnections, colors,
                                lockedColors))
    /\ UNCHANGED relaxVars

(***************************************************************************)
(* The relaxation loop of ColorGrid.svelte.  A frame handle is [id |-> n]; *)
(* pendingFrames holds the handles requested and neither fired nor         *)
(* cancelled.  lastArgs records the isRelaxing the handler read.           *)
(***************************************************************************)
\* if (isRelaxing) return, the first statement of startRelaxing
alreadyRelaxingNever == FALSE        \* startRelaxing without that statement

alreadyRelaxing == isRelaxing

\* animationFrameId = requestAnimationFrame(animate), pending the frames still
\* pending in the browser
requestFrame(pending) ==
    /\ framesRequested' = framesRequested + 1
    /\ animationFrameId' = [id |-> framesRequested + 1]
    /\ pendingFrames' = pending \cup {[id |-> framesRequested + 1]}

\* animate() past its guard: the step, the store update and the next frame;
\* a throw of simulateStep ends the function before the request
animatePastGuard(step, pending) ==
    /\ SteppedWith(step)
    /\ IF step.outcome = "returned"
       THEN requestFrame(pending)
       ELSE /\ pendingFrames' = pending
            /\ UNCHANGED <<animationFrameId, framesRequested>>

RelaxOp(name) ==
    /\ lastOp' = name
    /\ lastArgs' = <<isRelaxing>>
    /\ UNCHANGED <<connVars, css, lockedColors, gradVars, callVars>>

StartRelaxingWith(step) ==
    /\ RelaxOp("startRelaxing")
    /\ nOps' = nOps + 1
    /\ IF alreadyRelaxing
       THEN UNCHANGED <<velocities, colors, lastStep, nSteps, relaxVars>>
       ELSE /\ isRelaxing' = TRUE
            /\ animatePastGuard(step, pendingFrames)

StartRelaxing ==
    /\ nOps < MaxOps
    /\ alreadyRelaxing \/ nSteps < MaxFrames
    /\ StartRelaxingWith(simulateStep(velocities, springConnections, colors,
                                      lockedColors))

\* stopRelaxing without its first statement
relaxingAfterStopKept == isRelaxing

\* isRelaxing = false, the first statement of stopRelaxing
relaxingAfterStop == FALSE

StopRelaxing ==
    /\ nOps < MaxOps
    /\ isRelaxing' = relaxingAfterStop
    /\ pendingFrames' = IF animationFrameId # null
                        THEN pendingFrames \ {animationFrameId}
                        ELSE pendingFrames
    /\ animationFrameId' = null
    /\ RelaxOp("stopRelaxing")
    /\ nOps' = nOps + 1
    /\ UNCHANGED <<velocities, colors, lastStep, nSteps, framesRequested>>

\* the browser runs the callback of the pending frame
AnimationFrameWith(frame, step) ==
    /\ RelaxOp("animationFrame")
    /\ UNCHANGED nOps
    /\ IF ~isRelaxing
       THEN /\ pendingFrames' = pendingFrames \ {frame}
            /\ UNCHANGED <<velocities, colors, lastStep, nSteps, isRelaxing,
                           animationFrameId, framesRequested>>
       ELSE /\ UNCHANGED isRelaxing
            /\ animatePastGuard(step, pendingFrames \ {frame})

AnimationFrame ==
    /\ pendingFrames # {}
    /\ isRelaxing => nSteps < MaxFrames
    /\ \E frame \in pendingFrames :
          AnimationFrameWith(frame,
                             simulateStep(velocities, springConnections,
                                          colors, lockedColors))

(***************************************************************************)
(* The ColorGradients component: the three reactive statements             *)
(* $: xGradientSteps = generateX(startColor, endColor), run once the       *)
(* props are set.                                                          *)
(***************************************************************************)
UpdateGradients ==
    /\ lastOp = "none"
    /\ hslGradientSteps' = generateHSLGradient(startColor, endColor)
    /\ evenLumGradientSteps' = generateEvenLumGradient(startColor, endColor)
    /\ oklabGradientSteps' = generateOKLabGradient(startColor, endColor)
    /\ lastOp' = "updateGradients"
    /\ UNCHANGED <<connVars, springVars, startColor, endColor, nOps, nSteps,
                   lastArgs, callVars, relaxVars>>

(***************************************************************************)
(* Calls of single functions: arg names the function and its arguments,    *)
(* ret receives what the call returns.                                     *)
(***************************************************************************)
\* what a call leaves in ret: the value returned, or the error thrown
returned(value) == [value |-> value]

Called(name) ==
    /\ lastOp' = name
    /\ UNCHANGED <<connVars, springVars, gradVars, relaxVars, arg, nOps, nSteps,
                   lastArgs, activeColor>>

ParseColors ==
    /\ arg.op = "parseColors" /\ ret = NoCall
    /\ ret' = returned(parseColors(arg.text))
    /\ Called("parseColors")

FindClosestColorByLuminance ==
    /\ arg.op = "findClosestColorByLuminance" /\ ret = NoCall
    /\ ret' = IF Len(arg.colors) = 0
              THEN findClosestColorByLuminance(arg.colors, arg.targetLuminance)
              ELSE returned(findClosestColorByLuminance(arg.colors,
                                                        arg.targetLuminance))
    /\ Called("findClosestColorByLuminance")

FindMidLuminanceColor ==
    /\ arg.op = "findMidLuminanceColor" /\ ret = NoCall
    /\ ret' = returned(findMidLuminanceColor(arg.targetLuminance))
    /\ Called("findMidLuminanceColor")

FindHighestSaturationForLuminance ==
    /\ arg.op = "findHighestSaturationForLuminance" /\ ret = NoCall
    /\ ret' = returned(findHighestSaturationForLuminance(arg.hue,
                                                         arg.targetLuminance))
    /\ Called("findHighestSaturationForLuminance")

GetDefaultColors ==
    /\ arg.op = "getDefaultColors" /\ ret = NoCall
    /\ ret' = returned(getDefaultColors(arg.generatorHues,
                                        arg.luminances.midLightness,
                                        arg.luminances.high,
                                        arg.luminances.mid,
                                        arg.luminances.low))
    /\ Called("getDefaultColors")

CreateColor ==
    /\ arg.op = "createColor" /\ ret = NoCall
    /\ ret' = returned(createColor(arg.h, arg.s, arg.l))
    /\ Called("createColor")

\* a === b on numbers: false when either is NaN
strictEquals(a, b) == a # NaN /\ b # NaN /\ a = b

\* the predicate updateColor and updateStores hand to findIndex
sameHSL(c, active) ==
    /\ strictEquals(c.h, active.h)
    /\ strictEquals(c.s, active.s)
    /\ strictEquals(c.l, active.l)

\* the index of the last entry the predicate accepts
findIndexLast(palette, active) ==
    IF \A i \in DOMAIN palette : ~sameHSL(palette[i], active) THEN 0 - 1
    ELSE CHOOSE i \in DOMAIN palette :
            /\ sameHSL(palette[i], active)
            /\ \A o \in DOMAIN palette : sameHSL(palette[o], active) => o <= i

\* $colors.findIndex(c => c.h === $activeColor.h && ..): the first index
\* accepted, -1 when there is none
findIndex(palette, active) ==
    IF \A i \in DOMAIN palette : ~sameHSL(palette[i], active) THEN 0 - 1
    ELSE SetMin({ i \in DOMAIN palette : sameHSL(palette[i], active) })

\* updateColor past if (!$activeColor) return, with index what findIndex gave
UpdateColorAt(index, newColor) ==
    IF index # 0 - 1
    THEN /\ colors' = [colors EXCEPT ![index] = newColor]
         /\ activeColor' = newColor
    ELSE UNCHANGED <<colors, activeColor>>

\* updateColor of ColorPicker (updateStores of ColorWheel does the same with
\* the Color it is handed); h, s, l are the picker's values
UpdateColor ==
    /\ arg.op = "updateColor" /\ ret = NoCall
    /\ IF activeColor = null
       THEN UNCHANGED <<colors, activeColor>>
       ELSE UpdateColorAt(findIndex(colors, activeColor),
                          createColor(arg.h, arg.s, arg.l))
    /\ ret' = returned(undefined)
    /\ lastOp' = "updateColor"
    /\ UNCHANGED <<connVars, velocities, css, lockedColors, lastStep, gradVars,
                   relaxVars, arg, nOps, nSteps, lastArgs>>

\* handleSave: the content formatColors($colors) it writes to the file
HandleSave ==
    /\ arg.op = "handleSave" /\ ret = NoCall
    /\ ret' = returned(formatColors(colors))
    /\ Called("handleSave")

\* handleLoad keeping the palette whatever parseColors returns
loadedPaletteKept(newColors, palette) == palette

\* if (newColors) colors.set(newColors): what the palette store holds after
\* (the store maps each index to its Color; a hole of the array is an index
\* outside the domain)
loadedPalette(newColors, palette) ==
    IF newColors # null THEN newColors.elements ELSE palette

\* input.onchange of handleLoad once the file's text is read
HandleLoadWith(newColors) ==
    /\ colors' = loadedPalette(newColors, colors)
    /\ ret' = [alert |-> newColors = null]

\* handleLoad: file is null when the dialog is left without a file
HandleLoad ==
    /\ arg.op = "handleLoad" /\ ret = NoCall
    /\ IF arg.file = null
       THEN colors' = colors /\ ret' = [alert |-> FALSE]
       ELSE HandleLoadWith(parseColors(arg.file.text))
    /\ lastOp' = "handleLoad"
    /\ UNCHANGED <<connVars, velocities, css, lockedColors, lastStep, gradVars,
                   relaxVars, arg, nOps, nSteps, lastArgs, activeColor>>

CalculateSpringForce ==
    /\ arg.op = "calculateSpringForce" /\ ret = NoCall
    /\ ret' = returned(calculateSpringForce(arg.pos1, arg.pos2))
    /\ Called("calculateSpringForce")

EstimateLightnessChange ==
    /\ arg.op = "estimateLightnessChange" /\ ret = NoCall
    /\ ret' = returned(estimateLightnessChange(arg.color, arg.targetLuminance))
    /\ Called("estimateLightnessChange")

(***************************************************************************)
(* Specifications.                                                         *)
(*   Spec      the spring system: palette, locks, parameters, a few        *)
(*             connections, reset and relaxation frames                    *)
(*   SpecConn  the connection store alone, with the default topology       *)
(*   SpecGrad  the gradient generators over every pair of endpoints        *)
(*   SpecCall  single calls of the functions of color.ts, springs.ts and   *)
(*             the components, over their argument sets                    *)
(*   SpecRelax the relaxation loop of ColorGrid: startRelaxing,            *)
(*             stopRelaxing and the animation-frame callbacks              *)
(***************************************************************************)
Init == ConnInit /\ SpringInit /\ GradInit /\ CountInit /\ CallInit /\ RelaxInit

Next ==
    \/ \E palette \in PaletteInputs : SetColors(palette)
    \/ \E index \in LockInputs : ToggleLock(index)
    \/ \E config \in ConfigInputs : UpdateCSSVariables(config)
    \/ \E e \in EdgeInputs : AddSpringConnection(e[1], e[2])
    \/ CreateCircularChain(ChainInput)
    \/ ClearSpringConnections
    \/ Reset
    \/ Animate

Spec == Init /\ [][Next]_vars

NextConn ==
    \/ \E i \in ConnIndices, j \in ConnIndices : AddSpringConnection(i, j)
    \/ \E i \in ConnIndices, j \in ConnIndices : RemoveSpringConnection(i, j)
    \/ ClearSpringConnections
    \/ \E indices \in ChainInputs : CreateCircularChain(indices)
    \/ InitializeDefaultConnections

SpecConn == Init /\ [][NextConn]_vars

InitGrad ==
    /\ ConnInit /\ SpringInit /\ CountInit /\ CallInit /\ RelaxInit
    /\ startColor \in GradInputs
    /\ endColor \in GradInputs
    /\ hslGradientSteps = << >>
    /\ evenLumGradientSteps = << >>
    /\ oklabGradientSteps = << >>

NextGrad == UpdateGradients

SpecGrad == InitGrad /\ [][NextGrad]_vars

\* the relaxation parameters in force during a call: those the call names,
\* otherwise the unset CSS variables
callConfig(call) ==
    IF "config" \in DOMAIN call THEN call.config
    ELSE [springConstant |-> NaN, damping |-> NaN, timestep |-> NaN]

\* the stores a component's handler finds: those the call names
callPalette(call) == IF "palette" \in DOMAIN call THEN call.palette ELSE << >>
callActiveColor(call) ==
    IF "activeColor" \in DOMAIN call THEN call.activeColor ELSE null

InitCall ==
    /\ ConnInit /\ GradInit /\ CountInit /\ RelaxInit
    /\ arg \in CallInputs
    /\ ret = NoCall
    /\ activeColor = callActiveColor(arg)
    /\ velocities = << >>
    /\ css = callConfig(arg)
    /\ colors = callPalette(arg)
    /\ lockedColors = {}
    /\ lastStep = NoStep

NextCall ==
    \/ ParseColors
    \/ FindClosestColorByLuminance
    \/ FindMidLuminanceColor
    \/ FindHighestSaturationForLuminance
    \/ EstimateLightnessChange
    \/ CalculateSpringForce
    \/ GetDefaultColors
    \/ CreateColor
    \/ HandleLoad
    \/ UpdateColor
    \/ HandleSave

SpecCall == InitCall /\ [][NextCall]_vars

\* connection lists in place when the relaxation starts
RelaxConnInputs == { << >>, createCircularChain(<< >>, <<0, 1>>),
                     createCircularChain(<< >>, <<0, 1, 2>>) }

InitRelax ==
    /\ GradInit /\ CountInit /\ CallInit /\ RelaxInit
    /\ springConnections \in RelaxConnInputs
    /\ velocities = << >>
    /\ css = [springConstant |-> NaN, damping |-> NaN, timestep |-> NaN]
    /\ colors \in PaletteInputs
    /\ lockedColors = {}
    /\ lastStep = NoStep

NextRelax ==
    \/ StartRelaxing
    \/ StopRelaxing
    \/ AnimationFrame

SpecRelax == InitRelax /\ [][NextRelax]_vars

\* a relaxation under way: the palette set, a chain connected and one frame
\* of animate behind, with the parameters at their defaults
firstFrame(connections, palette) ==
    simulateStep(<< >>, connections, palette, {})

InitLock ==
    /\ GradInit /\ CountInit /\ CallInit /\ RelaxInit
    /\ springConnections \in RelaxConnInputs \ {<< >>}
    /\ css = [springConstant |-> NaN, damping |-> NaN, timestep |-> NaN]
    /\ \E palette \in PaletteInputs :
          /\ firstFrame(springConnections, palette).outcome = "returned"
          /\ velocities = firstFrame(springConnections, palette).velocities
          /\ colors = firstFrame(springConnections, palette).result
    /\ lockedColors = {}
    /\ lastStep = NoStep

\* what the parameter inputs of the relaxation panel are set to meanwhile
LockConfigInputs ==
    ConfigInputs \cup {[springConstant |-> 0, damping |-> 0, timestep |-> 0]}

NextLock ==
    \/ \E index \in LockInputs : ToggleLock(index)
    \/ \E config \in LockConfigInputs : UpdateCSSVariables(config)
    \/ ClearSpringConnections
    \/ Animate

SpecLock == InitLock /\ [][NextLock]_vars

(***************************************************************************)
(* Properties of simulateStep (checked under Spec).  lastStep holds the    *)
(* latest call; while lastOp = "simulateStep" the relaxation parameters    *)
(* are those the call read.                                                *)
(***************************************************************************)
stepPalette  == lastStep.palette
stepUnlocked == DOMAIN lastStep.palette \ lastStep.locked
stepNeighbours(i) == getConnectedIndices(lastStep.connections, i)
justStepped  == lastOp = "simulateStep"
stepReturnedOk == justStepped /\ lastStep.outcome = "returned"

\* the entry with its hue reduced to [0, 360)
hueNormalised(color) == [color EXCEPT !.h = @ % (360 * SC)]

\* the force a single neighbour source exerts on color
forceFromSingle(color, source) ==
    [h |-> calculateSpringForce(color.h, source.h),
     s |-> RoundDiv((source.s - color.s) * getSpringConstant, MILLI),
     l |-> estimateLightnessChange(color,
               color.luminance
               + RoundDiv((source.luminance - color.luminance)
                          * getSpringConstant, MILLI))]

\* C1: a returned step leaves every locked index holding exactly its input
\* Color, and an unlocked index whose only neighbour is a locked index is
\* moved by the force computed from the locked index's pre-step hue,
\* saturation and luminance.
C1_LockedUnchangedAndSource ==
    stepReturnedOk =>
        /\ \A i \in DOMAIN stepPalette \cap lastStep.locked :
              lastStep.result[i] = stepPalette[i]
        /\ \A j \in stepUnlocked : \A i \in lastStep.locked :
              stepNeighbours(j) = <<i>> =>
                 /\ lastStep.forces[j]
                      = forceFromSingle(stepPalette[j], stepPalette[i])
                 /\ lastStep.forces[j]
                      = forceOn(stepPalette, lastStep.connections, j)
                 /\ velocities[j]
                      = updateVelocity(lastStep.velBefore[j], lastStep.forces[j])
                 /\ lastStep.result[j]
                      = movedColor(stepPalette[j], velocities[j])

\* C1 witness: a returned step with a locked index whose differently
\* coloured, unlocked, only neighbour was moved
C1_Witness ==
    /\ stepReturnedOk
    /\ \E i \in DOMAIN stepPalette \cap lastStep.locked :
          \E j \in stepUnlocked :
             /\ stepNeighbours(j) = <<i>>
             /\ stepPalette[j] # stepPalette[i]
             /\ lastStep.forces[j] # ZeroVelocity
             /\ lastStep.result[j] # stepPalette[j]
             /\ lastStep.result[i] = stepPalette[i]

\* C2 (as stated): with an empty connection set a step returns the input
\* palette entry for entry (here for palettes of hues below 360 whose
\* indices all have a velocity entry).
C2_EmptyConnectionsIdentity ==
    ( /\ justStepped
      /\ lastStep.connections = << >>
      /\ DOMAIN stepPalette \subseteq DOMAIN lastStep.velBefore
      /\ \A i \in DOMAIN stepPalette : stepPalette[i].h < 360 * SC )
    => /\ lastStep.outcome = "returned"
       /\ lastStep.result = stepPalette

\* C2 (amended): with an empty connection set and a zero velocity entry for
\* every unlocked index, a step returns every entry with the same s, l, rgb
\* and luminance and with its hue reduced modulo 360, and the velocities
\* stay zero.
C2_EmptyConnectionsAtRest ==
    ( /\ justStepped
      /\ lastStep.connections = << >>
      /\ \A i \in stepUnlocked :
            /\ i \in DOMAIN lastStep.velBefore
            /\ lastStep.velBefore[i] = ZeroVelocity )
    => /\ lastStep.outcome = "returned"
       /\ \A i \in DOMAIN stepPalette :
             lastStep.result[i]
                = IF i \in lastStep.locked THEN stepPalette[i]
                  ELSE hueNormalised(stepPalette[i])
       /\ \A i \in stepUnlocked : velocities[i] = ZeroVelocity

\* C2 witness: the second of two steps over a non-empty palette at rest
\* with no connections
C2_Witness ==
    /\ justStepped
    /\ nSteps >= 2
    /\ lastStep.connections = << >>
    /\ stepUnlocked # {}
    /\ \A i \in stepUnlocked :
          /\ i \in DOMAIN lastStep.velBefore
          /\ lastStep.velBefore[i] = ZeroVelocity
    /\ lastStep.outcome = "returned"
    /\ colors = lastStep.result

\* every neighbour of index i holds a Color identical to index i's
amongIdentical(i) ==
    /\ Len(stepNeighbours(i)) > 0
    /\ \A k \in DOMAIN stepNeighbours(i) :
          /\ stepNeighbours(i)[k] \in DOMAIN stepPalette
          /\ stepPalette[stepNeighbours(i)[k]] = stepPalette[i]

\* C3: an unlocked chained index all of whose neighbours hold a Color
\* identical to its own gets zero hue, saturation and lightness force, and
\* its velocity, when zero before the step, is zero after it.
C3_IdenticalChainAtRest ==
    stepReturnedOk =>
        \A i \in stepUnlocked :
           amongIdentical(i) =>
              /\ lastStep.forces[i] = ZeroVelocity
              /\ lastStep.velBefore[i] = ZeroVelocity
                    => velocities[i] = ZeroVelocity

\* C3 witness: the second step over three identical colours joined by
\* createCircularChain([0, 1, 2]), all forces and velocities zero
C3_Witness ==
    /\ stepReturnedOk
    /\ nSteps >= 2
    /\ lastStep.connections = createCircularChain(<< >>, ChainInput)
    /\ Len(lastStep.connections) = 3
    /\ lastStep.locked = {}
    /\ DOMAIN stepPalette = {0, 1, 2}
    /\ \A i \in DOMAIN stepPalette :
          /\ amongIdentical(i)
          /\ lastStep.forces[i] = ZeroVelocity
          /\ velocities[i] = ZeroVelocity

\* C4: whenever simulateStep is called, every unlocked index of the palette
\* has a velocity entry once the call's initialisation test has run, and a
\* call whose neighbour indices all lie in the palette returns.
C4_VelocityEntryForEveryUnlockedIndex ==
    lastStep.called =>
        /\ \A i \in stepUnlocked : i \in DOMAIN lastStep.velBefore
        /\ (\A i \in stepUnlocked : \A k \in DOMAIN stepNeighbours(i) :
               stepNeighbours(i)[k] \in DOMAIN stepPalette)
              => lastStep.outcome = "returned"

(***************************************************************************)
(* Properties of the connection store (checked under SpecConn).            *)
(***************************************************************************)
\* C5: no two entries of the connection list denote the same unordered pair.
C5_NoDuplicateEdges ==
    \A k \in DOMAIN springConnections : \A l \in DOMAIN springConnections :
        k # l => ~SameEdge(springConnections[k], springConnections[l].index1,
                           springConnections[l].index2)

\* C5 witness: addSpringConnection(1, 0) was called on a list that holds
\* the pair as (0, 1), and the list holds it once
C5_Witness ==
    /\ lastOp = "addSpringConnection"
    /\ lastArgs = <<1, 0>>
    /\ \E k \in DOMAIN springConnections :
          springConnections[k] = [index1 |-> 0, index2 |-> 1]
    /\ C5_NoDuplicateEdges

\* C6: every stored connection joins two different indices.
C6_NoSelfLoops ==
    \A k \in DOMAIN springConnections :
        springConnections[k].index1 # springConnections[k].index2

\* the 60 unordered pairs of the default topology
defaultEdges ==
    { {g * 30 + sl * 5 + p, g * 30 + ((sl + 1) % 6) * 5 + p} :
        g \in 0..1, sl \in 0..5, p \in 0..4 }

storedEdges ==
    { {springConnections[k].index1, springConnections[k].index2} :
        k \in DOMAIN springConnections }

storedNeighbours(n) ==
    { getConnectedIndices(springConnections, n)[k] :
        k \in DOMAIN getConnectedIndices(springConnections, n) }

\* C7: right after initializeDefaultConnections the list holds exactly the
\* 60 default edges, once each; every index 0..59 has exactly two
\* neighbours, both of its own group and position; and the list is the one
\* the operation builds from any earlier list.
C7_DefaultTopology ==
    lastOp = "initializeDefaultConnections" =>
        /\ storedEdges = defaultEdges
        /\ Len(springConnections) = 60
        /\ Cardinality(defaultEdges) = 60
        /\ \A n \in 0..59 :
              /\ Len(getConnectedIndices(springConnections, n)) = 2
              /\ Cardinality(storedNeighbours(n)) = 2
              /\ \A m \in storedNeighbours(n) :
                    m \div 30 = n \div 30 /\ m % 5 = n % 5
        /\ springConnections = initializeDefaultConnections

\* C7 witness: the default topology built as the third operation of a run
C7_Witness ==
    /\ lastOp = "initializeDefaultConnections"
    /\ nOps >= 3
    /\ storedEdges = defaultEdges
    /\ Len(springConnections) = 60

(***************************************************************************)
(* Properties of the gradient generators (checked under SpecGrad).         *)
(***************************************************************************)
gradients == <<hslGradientSteps, evenLumGradientSteps, oklabGradientSteps>>
gradientsOfPair ==
    lastOp = "updateGradients" /\ startColor # null /\ endColor # null

\* C8: for non-null endpoints the first element of each of the three
\* gradients is start and the last is end, field for field.
C8_ExactEndpoints ==
    gradientsOfPair =>
        \A p \in 1..3 :
            /\ Len(gradients[p]) > 0
            /\ gradients[p][1] = startColor
            /\ gradients[p][Len(gradients[p])] = endColor

\* C9 (as stated): for non-null endpoints each gradient has 22 entries.
C9_TwentyTwoEntries ==
    gradientsOfPair =>
        \A p \in 1..3 : Len(gradients[p]) = steps + 2

\* C9 (amended): for non-null endpoints each gradient has steps + 1 = 21
\* entries, 19 between the first and the last, and the three have the same
\* length.
C9_TwentyOneEntries ==
    gradientsOfPair =>
        /\ \A p \in 1..3 : Len(gradients[p]) = steps + 1
        /\ \A p \in 1..3 : Len(gradients[p]) = 21
        /\ \A p \in 1..3, q \in 1..3 : Len(gradients[p]) = Len(gradients[q])

\* C9 witness: the gradients of two different non-null endpoints
C9_Witness ==
    /\ gradientsOfPair
    /\ startColor # endColor
    /\ Len(hslGradientSteps) = 21
    /\ Len(evenLumGradientSteps) = 21
    /\ Len(oklabGradientSteps) = 21

\* C10: with start or end (or both) null each of the three generators
\* returns the empty sequence.
C10_NullEndpointEmpty ==
    (lastOp = "updateGradients" /\ (startColor = null \/ endColor = null)) =>
        \A p \in 1..3 : gradients[p] = << >>

\* C10 witness: the gradients of a null start and a non-null end
C10_Witness ==
    /\ lastOp = "updateGradients"
    /\ startColor = null
    /\ endColor # null
    /\ \A p \in 1..3 : gradients[p] = << >>

(***************************************************************************)
(* Properties of single calls (checked under SpecCall).                    *)
(***************************************************************************)
returnedFrom(name) == arg.op = name /\ ret # NoCall

\* C11: parseColors returns a palette only with a Color at each of the 60
\* flat indices 0..59 and a length of 60; otherwise it returns null.
C11_SixtyColorsOrNull ==
    returnedFrom("parseColors") =>
        \/ ret.value = null
        \/ /\ DOMAIN ret.value.elements = 0..59
           /\ ret.value.length = 60

luminanceSearches ==
    { "findClosestColorByLuminance", "findMidLuminanceColor",
      "findHighestSaturationForLuminance", "getDefaultColors" }

\* C12: every luminance search returns a value (never a thrown error) for
\* every target luminance and every candidate list, the empty one included.
C12_SearchNeverThrows ==
    (arg.op \in luminanceSearches /\ ret # NoCall) => ret # TypeError

\* the denominator of estimateLightnessChange's quotient for color, in 1/LQ:
\* the luminance gained by one more unit of lightness, or 0.001 in its place
\* when that gain is falsy
estimateDenominator(color) ==
    LET luminanceDiff == createColor(color.h, color.s, color.l + SC).luminance
                         - color.luminance
    IN  IF luminanceDiff = 0 THEN LQ \div 1000 ELSE luminanceDiff

\* C13: the denominator estimateLightnessChange divides by never has a
\* magnitude below 0.001, so the returned lightness change is at most
\* 0.5 * |targetLuminance - color.luminance| / 0.001 in magnitude (half a
\* unit of the result's last digit allowed for rounding).
C13_DenominatorFloor ==
    returnedFrom("estimateLightnessChange") =>
        /\ Abs(estimateDenominator(arg.color)) >= LQ \div 1000
        /\ Abs(ret.value) * 2 * (LQ \div 1000)
              <= SC * Abs(arg.targetLuminance - arg.color.luminance)
                 + LQ \div 1000

\* C14: for hues in [0, 360] the hue force is k * d, where d is congruent to
\* neighbour - self modulo 360 and lies in [-180, 180]; for the neighbour at
\* 350 and the colour at 10 the difference is -20, not +340.
C14_ShortestSignedDifference ==
    returnedFrom("calculateSpringForce") =>
        /\ \E d \in { arg.pos2 - arg.pos1, arg.pos2 - arg.pos1 - 360 * SC,
                       arg.pos2 - arg.pos1 + 360 * SC } :
              /\ 0 - 180 * SC <= d /\ d <= 180 * SC
              /\ ret.value * MILLI = getSpringConstant * d
        /\ (arg.pos2 = 350 * SC /\ arg.pos1 = 10 * SC)
              => ret.value * MILLI = getSpringConstant * (0 - 20 * SC)

C14_Witness ==
    /\ returnedFrom("calculateSpringForce")
    /\ arg.pos2 = 350 * SC /\ arg.pos1 = 10 * SC
    /\ getSpringConstant = 500
    /\ ret.value * MILLI = getSpringConstant * (0 - 20 * SC)

\* C15: every Color a returned step writes for an unlocked index has its
\* hue in [0, 360) and its saturation and lightness in [0, 100].
C15_WrittenColorsInRange ==
    stepReturnedOk =>
        \A i \in stepUnlocked :
            /\ 0 <= lastStep.result[i].h /\ lastStep.result[i].h < 360 * SC
            /\ 0 <= lastStep.result[i].s /\ lastStep.result[i].s <= 100 * SC
            /\ 0 <= lastStep.result[i].l /\ lastStep.result[i].l <= 100 * SC

(***************************************************************************)
(* Properties of the relaxation loop (checked under SpecRelax).            *)
(***************************************************************************)
\* C16: under every interleaving of startRelaxing, stopRelaxing and frame
\* callbacks at most one animation frame is pending, it is the one
\* animationFrameId names, and it is pending only while relaxing; a call of
\* startRelaxing made while relaxing performs no simulateStep and requests
\* no frame.
C16_OneSteppingLoop ==
    /\ [](/\ Cardinality(pendingFrames) <= 1
          /\ pendingFrames \subseteq {animationFrameId}
          /\ pendingFrames # {} => isRelaxing)
    /\ [][(isRelaxing /\ lastOp' = "startRelaxing")
             => UNCHANGED <<nSteps, colors, velocities, pendingFrames,
                            framesRequested, isRelaxing>>]_vars

C16_Witness ==
    /\ lastOp = "startRelaxing" /\ lastArgs = <<TRUE>>
    /\ isRelaxing
    /\ Cardinality(pendingFrames) = 1
    /\ nSteps = 2 /\ framesRequested = 2

\* C24: once stopRelaxing has run, the loop is off and no frame is pending;
\* while the loop is off nothing but startRelaxing calls simulateStep or
\* writes the palette or the velocities; a frame callback that runs while
\* relaxing makes exactly one simulateStep on the stored palette, the step
\* returns, its result is the palette stored, and then exactly one new frame
\* is requested.
C24_StopEndsStepping ==
    /\ [](lastOp = "stopRelaxing" => ~isRelaxing /\ pendingFrames = {})
    /\ [][(~isRelaxing /\ lastOp' # "startRelaxing")
             => UNCHANGED <<nSteps, colors, velocities, lastStep>>]_vars
    /\ [][(isRelaxing /\ lastOp' = "animationFrame")
             => /\ nSteps' = nSteps + 1
                /\ lastStep'.palette = colors
                /\ lastStep'.outcome = "returned"
                /\ colors' = lastStep'.result
                /\ framesRequested' = framesRequested + 1
                /\ pendingFrames' = {animationFrameId'}
                /\ animationFrameId' \notin pendingFrames]_vars

\* C24 witness: stopRelaxing called while relaxing, after a frame callback
\* made the second step and requested the second frame, which it cancels
C24_Witness ==
    /\ lastOp = "stopRelaxing" /\ lastArgs = <<TRUE>>
    /\ nSteps = 2 /\ framesRequested = 2
    /\ ~isRelaxing /\ pendingFrames = {}
    /\ colors = lastStep.result

(***************************************************************************)
(* Properties of getDefaultColors and createColor (checked under SpecCall).*)
(***************************************************************************)
\* the hues a call of getDefaultColors works from
hueList == IF arg.generatorHues = undefined THEN defaultHues
           ELSE arg.generatorHues.value

\* C17: with 12 hues getDefaultColors returns exactly 60 Colors, whatever
\* the other arguments; the Color of group g, palette p and position c is at
\* index g * 30 + p * 5 + c and has the hue hues[g * 6 + p]; without hues
\* given the hues are 0, 60, 120, 180, 240, 300, 30, 90, 150, 210, 270, 330.
C17_SixtyColorsByGroupPalettePosition ==
    returnedFrom("getDefaultColors") =>
        /\ DOMAIN ret.value = 0..59
        /\ \A g \in 0..1 : \A p \in 0..5 : \A c \in 0..4 :
              ret.value[g * 30 + p * 5 + c].h = hueList[g * 6 + p + 1]
        /\ arg.generatorHues = undefined =>
              hueList = << 0, 60 * SC, 120 * SC, 180 * SC, 240 * SC, 300 * SC,
                           30 * SC, 90 * SC, 150 * SC, 210 * SC, 270 * SC,
                           330 * SC >>

C17_Witness ==
    /\ returnedFrom("getDefaultColors")
    /\ arg.generatorHues # undefined
    /\ arg.luminances.low # undefined
    /\ DOMAIN ret.value = 0..59
    /\ ret.value[30 + 2 * 5 + 4].h = arg.generatorHues.value[9]
    /\ ret.value[30 + 2 * 5 + 4].s >= 100 * SC

\* the colour of one more unit of lightness than the call's
nextLighter == createColor(arg.h, arg.s, arg.l + SC)

\* C18 as stated: the luminance of createColor(h, s, l) does not decrease
\* while l rises from 0 to 50 and does not increase while l rises from 50
\* to 100.
C18_RisesThenFalls ==
    (returnedFrom("createColor") /\ arg.l < 100 * SC) =>
        /\ arg.l < 50 * SC => ret.value.luminance <= nextLighter.luminance
        /\ arg.l >= 50 * SC => ret.value.luminance >= nextLighter.luminance

\* C18 amended: the luminance of createColor(h, s, l) does not decrease
\* while l rises from 0 to 100; it is 0 at l = 0 and 1 at l = 100.
C18_NeverFalls ==
    returnedFrom("createColor") =>
        /\ arg.l < 100 * SC => ret.value.luminance <= nextLighter.luminance
        /\ arg.l = 0 => ret.value.luminance = 0
        /\ arg.l = 100 * SC => ret.value.luminance = LQ

C18_Witness ==
    /\ returnedFrom("createColor")
    /\ arg.l = 75 * SC /\ arg.s = 100 * SC /\ arg.h = 240 * SC
    /\ ret.value.luminance < nextLighter.luminance
    /\ ret.value.luminance > createColor(arg.h, arg.s, 50 * SC).luminance

(***************************************************************************)
(* Further properties of simulateStep (checked under Spec).                *)
(***************************************************************************)
\* C19: a call of simulateStep, returning or throwing, leaves the array it
\* was given holding the Colors it held, and leaves the locked set and the
\* connection list as they were; a returned result has the indices of the
\* input; the velocity map is the only state of the spring system the call
\* changes.
C19_InputsNotMutated ==
    justStepped =>
        /\ lastStep.paletteAfter = lastStep.palette
        /\ lockedColors = lastStep.locked
        /\ springConnections = lastStep.connections
        /\ lastStep.outcome = "returned"
              => DOMAIN lastStep.result = DOMAIN lastStep.palette

C19_Witness ==
    /\ stepReturnedOk
    /\ lastStep.locked # {}
    /\ lastStep.result # lastStep.palette
    /\ lastStep.paletteAfter = lastStep.palette
    /\ velocities # lastStep.velAtCall
    /\ PaletteLen(lastStep.result) = 3

\* (v + F * dt) * (1 - damping) for one channel, with the parameters in
\* force
dampedVelocity(v, F) ==
    RoundDiv((v + RoundDiv(F * getTimestep, MILLI)) * (MILLI - getDamping),
             MILLI)

\* C20: for every unlocked index and every channel a returned step sets the
\* velocity to v' = (v + F * dt) * (1 - damping), v being the velocity the
\* previous step left (zero at the first step), and writes the position
\* old + v' * dt computed from v', not from v; between steps only reset
\* changes the velocities.
C20_VelocityThenPosition ==
    /\ [](stepReturnedOk =>
            /\ lastStep.velAtCall # << >>
                  => lastStep.velBefore = lastStep.velAtCall
            /\ \A i \in stepUnlocked :
                  /\ velocities[i].h = dampedVelocity(lastStep.velBefore[i].h,
                                                      lastStep.forces[i].h)
                  /\ velocities[i].s = dampedVelocity(lastStep.velBefore[i].s,
                                                      lastStep.forces[i].s)
                  /\ velocities[i].l = dampedVelocity(lastStep.velBefore[i].l,
                                                      lastStep.forces[i].l)
                  /\ lastStep.result[i]
                       = movedColor(stepPalette[i], velocities[i]))
    /\ [][lastOp' \notin {"simulateStep", "reset"}
            => velocities' = velocities]_vars

\* C20 witness: a second step in a row, at an index whose velocity was not
\* zero and changed, and whose position differs from the one the pre-step
\* velocity would have given
C20_Witness ==
    /\ stepReturnedOk
    /\ nSteps = 2
    /\ \E i \in stepUnlocked :
          /\ lastStep.velBefore[i] # ZeroVelocity
          /\ lastStep.velBefore[i] = lastStep.velAtCall[i]
          /\ velocities[i] # lastStep.velBefore[i]
          /\ lastStep.result[i]
               # movedColor(stepPalette[i], lastStep.velBefore[i])


(***************************************************************************)
(* Further properties of the connection store (checked under SpecConn).    *)
(***************************************************************************)
\* the positions of the stored edges that do not join index1 and index2
otherEdges(index1, index2) ==
    { k \in DOMAIN springConnections :
        {springConnections[k].index1, springConnections[k].index2}
            # {index1, index2} }

\* C21: on every list the store reaches, removeSpringConnection(i, j) yields
\* the edges that do not join i and j, whichever way round {i, j} was
\* stored, in their stored order; adding an absent edge and removing it
\* gives the list back; adding an edge present either way round gives the
\* list back; clearSpringConnections gives the empty list; and the list
\* found after a removal or a clear is that result.
C21_RemoveAddClear ==
    /\ \A i \in ConnIndices : \A j \in ConnIndices :
          /\ Len(removeSpringConnection(springConnections, i, j))
                = Cardinality(otherEdges(i, j))
          /\ \A k \in otherEdges(i, j) :
                removeSpringConnection(springConnections, i, j)
                    [Cardinality({m \in otherEdges(i, j) : m <= k})]
                  = springConnections[k]
          /\ IF {i, j} \in storedEdges
             THEN addSpringConnection(springConnections, i, j)
                    = springConnections
             ELSE removeSpringConnection(
                      addSpringConnection(springConnections, i, j), i, j)
                    = springConnections
    /\ clearSpringConnections = << >>
    /\ lastOp = "clearSpringConnections" => springConnections = << >>
    /\ lastOp = "removeSpringConnection"
          => {lastArgs[1], lastArgs[2]} \notin storedEdges

\* C21 witness: removeSpringConnection(1, 0) has removed the edge stored as
\* (0, 1) from between other edges, which keep their order
C21_Witness ==
    /\ lastOp = "removeSpringConnection"
    /\ lastArgs = <<1, 0>>
    /\ springConnections = << [index1 |-> 5, index2 |-> 0],
                              [index1 |-> 1, index2 |-> 2],
                              [index1 |-> 2, index2 |-> 0] >>


(***************************************************************************)
(* The luminance search of getDefaultColors (checked under SpecCall).      *)
(***************************************************************************)
\* the call gave the four luminance arguments
luminanceMode ==
    /\ arg.luminances.midLightness # undefined
    /\ arg.luminances.high # undefined
    /\ arg.luminances.mid # undefined
    /\ arg.luminances.low # undefined

\* the target luminance of position c of group g in the call
targetOf(g, c) ==
    targetLuminanceAt(c, arg.luminances.mid.value,
                      IF g = 0 THEN arg.luminances.high.value
                      ELSE arg.luminances.low.value)

\* the difference to target of the colour of saturation s (whole units) and
\* lightness k / 5
differenceAt(hue, s, k, target) ==
    Abs(createColor(hue, s * SC, k * (SC \div 5)).luminance - target)

\* (s, k) comes before (bestSat, bestK) in the scan order
scannedBefore(s, k, bestSat, bestK) == s < bestSat \/ (s = bestSat /\ k < bestK)

\* the Color found is the one the stated scan returns: saturations from
\* targetSat to 100, in each the lightnesses 0, 0.2, .. 100; the first
\* within 0.001 of the target, or else the earliest of minimal difference
statedChoice(found, target, targetSat) ==
    /\ found.s >= targetSat * SC
    /\ found.s % SC = 0 /\ found.l % (SC \div 5) = 0
    /\ IF Abs(found.luminance - target) < LQ \div 1000
       THEN \A s \in targetSat..(found.s \div SC) : \A k \in 0..(5 * 100) :
                scannedBefore(s, k, found.s \div SC, found.l \div (SC \div 5))
                    => differenceAt(found.h, s, k, target) >= LQ \div 1000
       ELSE \A s \in targetSat..100 : \A k \in 0..(5 * 100) :
                IF scannedBefore(s, k, found.s \div SC,
                                 found.l \div (SC \div 5))
                THEN differenceAt(found.h, s, k, target)
                        > Abs(found.luminance - target)
                ELSE differenceAt(found.h, s, k, target)
                        >= Abs(found.luminance - target)

\* C22: in luminance-target mode the Color of each position 1..4 is the one
\* the scan over saturation targetSat .. 100 and lightness 0 .. 100 returns:
\* the first within 0.001 of the target luminance if there is one, otherwise
\* the first of minimal difference; its saturation is at least targetSat =
\* min(100, round(position / 4 * 102)).
C22_FirstWithinToleranceElseMinimal ==
    (returnedFrom("getDefaultColors") /\ luminanceMode) =>
        \A g \in 0..1 : \A p \in 0..5 : \A c \in 1..4 :
            statedChoice(ret.value[g * 30 + p * 5 + c], targetOf(g, c),
                         Min2(100, RoundDiv(c * 102, 4)))


activeMatches ==
    IF arg.activeColor = null THEN {}
    ELSE { i \in DOMAIN arg.palette :
              /\ arg.palette[i].h = arg.activeColor.h
              /\ arg.palette[i].s = arg.activeColor.s
              /\ arg.palette[i].l = arg.activeColor.l }

\* C25: after updateColor, if the active Color was null or no palette entry
\* had its (h, s, l), the palette and the active Color are what they were;
\* otherwise the palette differs from the old one at most at the first
\* matching index, which holds createColor(h, s, l), and the active Color is
\* that same Color.
C25_EditReplacesFirstMatch ==
    returnedFrom("updateColor") =>
        IF activeMatches = {}
        THEN colors = arg.palette /\ activeColor = arg.activeColor
        ELSE /\ DOMAIN colors = DOMAIN arg.palette
             /\ \A i \in DOMAIN colors :
                   colors[i] = IF i = SetMin(activeMatches)
                               THEN createColor(arg.h, arg.s, arg.l)
                               ELSE arg.palette[i]
             /\ activeColor = createColor(arg.h, arg.s, arg.l)

\* C25 witness: three entries matched the active Color and only the first
\* was replaced
C25_Witness ==
    /\ returnedFrom("updateColor")
    /\ activeMatches = {0, 1, 2}
    /\ colors = Palette(<<Sand, Green, Green>>)
    /\ activeColor = Sand


(***************************************************************************)
(* Further properties of simulateStep (checked under Spec).                *)
(***************************************************************************)
\* the Color a step writes at index i, from the palette, the connections and
\* the velocity of i the step started from alone
steppedAlone(i) ==
    movedColor(stepPalette[i],
               updateVelocity(lastStep.velBefore[i],
                              forceOn(stepPalette, lastStep.connections, i)))

\* C26: in a returned step the force of every unlocked index is the one the
\* input palette and the connections give, whatever the step has written at
\* other indices, and the Color written at the index follows from the input
\* palette, the connections and the index's own velocity; a locked index
\* keeps its Color.
C26_SynchronousUpdate ==
    stepReturnedOk =>
        \A i \in DOMAIN stepPalette :
            IF i \in lastStep.locked
            THEN lastStep.result[i] = stepPalette[i]
            ELSE /\ lastStep.forces[i]
                      = forceOn(stepPalette, lastStep.connections, i)
                 /\ lastStep.result[i] = steppedAlone(i)

\* C26 witness: index 1 is pulled by index 0, which the same step moved
\* first, and the force from the moved Color would have been another one
C26_Witness ==
    /\ stepReturnedOk
    /\ {0, 1} \subseteq stepUnlocked
    /\ \E k \in DOMAIN stepNeighbours(1) : stepNeighbours(1)[k] = 0
    /\ lastStep.result[0] # stepPalette[0]
    /\ lastStep.forces[1]
          # forceOn([stepPalette EXCEPT ![0] = lastStep.result[0]],
                    lastStep.connections, 1)


(***************************************************************************)
(* Properties of locking during a relaxation (checked under SpecLock).     *)
(***************************************************************************)
\* C27: a step leaves the velocity of every locked index as the call found
\* it; toggling a lock and clearing the connections leave the velocities
\* alone; so at the first step after an unlock the index still has the
\* velocity it had when the step before was called, and the step damps that
\* velocity (with the force, zero or not) and moves the Color by it.
C27_LockedVelocityKept ==
    /\ [](justStepped =>
            \A i \in lastStep.locked \cap DOMAIN lastStep.velBefore :
                velocities[i] = lastStep.velBefore[i])
    /\ [](stepReturnedOk =>
            \A i \in (lastStep.lockedBefore \ lastStep.locked)
                         \cap DOMAIN stepPalette :
                /\ lastStep.velAtCall[i] = lastStep.velAtCallBefore[i]
                /\ velocities[i] = updateVelocity(lastStep.velAtCallBefore[i],
                                                  lastStep.forces[i])
                /\ lastStep.result[i]
                     = movedColor(stepPalette[i], velocities[i]))
    /\ [][lastOp' # "simulateStep" => velocities' = velocities]_vars

\* C27 witness: index 0 was locked with a non-zero velocity during the step
\* before, is unlocked and unconnected now, and the step moved it
C27_Witness ==
    /\ stepReturnedOk
    /\ 0 \in lastStep.lockedBefore /\ 0 \notin lastStep.locked
    /\ lastStep.connections = << >>
    /\ lastStep.forces[0] = [h |-> 0, s |-> 0, l |-> 0]
    /\ lastStep.velAtCall[0] # ZeroVelocity
    /\ lastStep.velAtCall[0] = lastStep.velAtCallBefore[0]
    /\ lastStep.result[0] # stepPalette[0]


\* the parameter a getter yields by the rule stated: the default for a
\* configured 0 or NaN, the configured value otherwise (thousandths)
statedParameter(configured, default) ==
    IF configured = 0 \/ configured = NaN THEN default ELSE configured

\* the sum over the neighbours from the k-th on of (source.s - color.s) * K
RECURSIVE saturationPull(_, _, _, _)
saturationPull(i, neighbours, k, K) ==
    IF k > Len(neighbours) THEN 0
    ELSE RoundDiv((stepPalette[neighbours[k]].s - stepPalette[i].s) * K, MILLI)
         + saturationPull(i, neighbours, k + 1, K)

\* C28: a returned step computes the saturation force, velocity and position
\* of every unlocked index with the spring constant 0.1 where the configured
\* one is 0 or NaN, the damping 0.2 where the configured one is 0 or NaN and
\* the timestep 1.0 where the configured one is 0 or NaN, and with the
\* configured values otherwise.
C28_ZeroAndNaNGiveDefaults ==
    stepReturnedOk =>
        \A i \in stepUnlocked :
            /\ lastStep.forces[i].s
                 = saturationPull(i, stepNeighbours(i), 1,
                                  statedParameter(css.springConstant, 100))
            /\ velocities[i].s
                 = RoundDiv((lastStep.velBefore[i].s
                             + RoundDiv(lastStep.forces[i].s
                                        * statedParameter(css.timestep, 1000),
                                        MILLI))
                            * (MILLI - statedParameter(css.damping, 200)),
                            MILLI)
            /\ lastStep.result[i].s
                 = Max2(0, Min2(100 * SC,
                       stepPalette[i].s
                       + RoundDiv(velocities[i].s
                                  * statedParameter(css.timestep, 1000),
                                  MILLI)))

\* C28 witness: a step made with all three parameters configured as 0 that
\* pulled an index, changed its velocity and moved its saturation
C28_Witness ==
    /\ stepReturnedOk
    /\ css = [springConstant |-> 0, damping |-> 0, timestep |-> 0]
    /\ \E i \in stepUnlocked :
          /\ lastStep.forces[i].s # 0
          /\ velocities[i].s # lastStep.velBefore[i].s
          /\ lastStep.result[i].s # stepPalette[i].s


(***************************************************************************)
(* Properties of findHighestSaturationForLuminance (checked under          *)
(* SpecCall).                                                              *)
(***************************************************************************)
\* the saturations the call probed, and the passes whose saturation has a
\* lightness within 0.005 of the target
probed == probedSaturations(arg.hue, arg.targetLuminance,
              [left |-> 0, right |-> 100, bestSat |-> 0, bestLight |-> 50])
feasiblePasses ==
    { k \in DOMAIN probed :
         lightnessHits(arg.hue, probed[k], arg.targetLuminance) # {} }

\* C29: findHighestSaturationForLuminance makes at most 7 passes and probes
\* saturations from 1 to 99 only; it returns saturation 0 and lightness 50
\* when no probed saturation has a lightness 0..100 within 0.005 of the
\* target, and otherwise the saturation of the last feasible pass with the
\* lowest such lightness at that saturation.
C29_BisectionResult ==
    returnedFrom("findHighestSaturationForLuminance") =>
        /\ Len(probed) <= 7
        /\ \A k \in DOMAIN probed : probed[k] \in 1..99
        /\ IF feasiblePasses = {}
           THEN ret.value = [saturation |-> 0, lightness |-> 50]
           ELSE LET last == CHOOSE k \in feasiblePasses :
                               \A o \in feasiblePasses : o <= k
                IN  /\ ret.value.saturation = probed[last]
                    /\ ret.value.lightness
                         = SetMin(lightnessHits(arg.hue, probed[last],
                                                arg.targetLuminance))

\* C29 witness: seven passes, some feasible and some not, ending at a
\* saturation strictly between the first and the last feasible one probed
C29_Witness ==
    /\ returnedFrom("findHighestSaturationForLuminance")
    /\ Len(probed) = 7
    /\ Cardinality(feasiblePasses) \in 2..6
    /\ ret.value.saturation > probed[SetMin(feasiblePasses)]
    /\ ret.value.saturation < 99


(***************************************************************************)
(* Properties of the save format (checked under SpecCall).                 *)
(***************************************************************************)
\* C30: the text formatColors writes for a palette of 60 Colors is parsed
\* by parseColors into an array of length 60 with a Color at every index,
\* the Color at i being createColor of the rounded h, s and l of entry i,
\* and formatColors writes the same lines for that array.
C30_SaveLoadRoundTrip ==
    returnedFrom("handleSave") =>
        /\ parseColors(ret.value) # null
        /\ parseColors(ret.value).length = 60
        /\ DOMAIN parseColors(ret.value).elements = 0..59
        /\ \A i \in 0..59 :
              parseColors(ret.value).elements[i]
                = createColor(RoundDiv(arg.palette[i].h, SC) * SC,
                              RoundDiv(arg.palette[i].s, SC) * SC,
                              RoundDiv(arg.palette[i].l, SC) * SC)
        /\ formatColors(parseColors(ret.value).elements) = ret.value

\* C30 witness: a palette saved whose entries have fractional numbers, the
\* first with the hue 359.5, which is loaded as 360
C30_Witness ==
    /\ returnedFrom("handleSave")
    /\ arg.palette[0].h = 359 * SC + SC \div 2
    /\ \E i \in 0..59 : arg.palette[i].s % SC # 0
    /\ parseColors(ret.value) # null
    /\ parseColors(ret.value).elements[0].h = 360 * SC
    /\ parseColors(ret.value).elements # arg.palette

====
